---------------------------- MODULE Spec2Model ----------------------------
(***************************************************************************)
(* AppdyLicCalc: the ThousandEyes unit calculator, the AppDynamics        *)
(* licence calculator and the Flask request layer that feeds them.         *)
(*                                                                         *)
(* Conventions                                                             *)
(*  - A Python str is a sequence of one-character strings, so that lower,  *)
(*    strip, replace and the regular expressions act on characters.        *)
(*  - Python None is the empty sequence None; a present optional value v   *)
(*    is the one-element sequence <<v>>.                                   *)
(*  - The letter i with an acute accent is the character "i-acute".        *)
(*  - Milli-unit rates are floats that are multiples of 0.5 (2.5, 0.5*t);  *)
(*    they are held as the integer number of HALF milli-units, and the     *)
(*    unit formula divides by 2*1000 accordingly.                          *)
(***************************************************************************)
EXTENDS Integers, Sequences, FiniteSets, TLC

(***************************************************************************)
(* Bounds of the model.                                                    *)
(***************************************************************************)
MaxPad == 1
MaxAgents == 2
MaxServers == 2
MaxGap == 1
MaxCount == 2
MaxNodes == 2
MaxSets == 1

(***************************************************************************)
(* Python built-ins used by the source.                                    *)
(***************************************************************************)
None == <<>>

Some(v) == <<v>>

IsNone(x) == x = None

Val(x) == x[1]

Max(a, b) == IF a >= b THEN a ELSE b

Min(a, b) == IF a <= b THEN a ELSE b

\* `x or d` on an optional int: None and 0 are falsy.
OrInt(x, d) == IF IsNone(x) \/ Val(x) = 0 THEN d ELSE Val(x)

UpperChars ==
  << "A", "B", "C", "D", "E", "F", "G", "H", "I", "J", "K", "L", "M",
     "N", "O", "P", "Q", "R", "S", "T", "U", "V", "W", "X", "Y", "Z",
     "I-acute" >>

LowerChars ==
  << "a", "b", "c", "d", "e", "f", "g", "h", "i", "j", "k", "l", "m",
     "n", "o", "p", "q", "r", "s", "t", "u", "v", "w", "x", "y", "z",
     "i-acute" >>

Digits == { "0", "1", "2", "3", "4", "5", "6", "7", "8", "9" }

Whitespace == { " ", "\t" }

LowerChar(c) ==
  IF \E i \in 1..Len(UpperChars) : UpperChars[i] = c
  THEN LowerChars[CHOOSE i \in 1..Len(UpperChars) : UpperChars[i] = c]
  ELSE c

UpperChar(c) ==
  IF \E i \in 1..Len(LowerChars) : LowerChars[i] = c
  THEN UpperChars[CHOOSE i \in 1..Len(LowerChars) : LowerChars[i] = c]
  ELSE c

\* str.lower()
lower(s) == [i \in 1..Len(s) |-> LowerChar(s[i])]

\* str.upper()
upper(s) == [i \in 1..Len(s) |-> UpperChar(s[i])]

\* str.strip(): drops leading and trailing whitespace
strip(s) ==
  LET keep == { i \in 1..Len(s) : s[i] \notin Whitespace }
  IN  IF keep = {} THEN <<>>
      ELSE LET lo == CHOOSE i \in keep : \A j \in keep : i <= j
               hi == CHOOSE i \in keep : \A j \in keep : i >= j
           IN  SubSeq(s, lo, hi)

\* str.replace(a, b) for one-character a and b
replace(s, a, b) == [i \in 1..Len(s) |-> IF s[i] = a THEN b ELSE s[i]]

\* str.replace(a, "") for a one-character a
remove(s, a) == SelectSeq(s, LAMBDA c : c # a)

\* dict.get(key, default) on a table given as a sequence of <<key, value>>
DictGet(table, key, default) ==
  IF \E i \in 1..Len(table) : table[i][1] = key
  THEN table[CHOOSE i \in 1..Len(table) : table[i][1] = key][2]
  ELSE default

\* round() of the non-negative rational n/d: to nearest, ties to even
round(n, d) ==
  LET q == n \div d
      r == n % d
  IN  IF 2 * r < d THEN q
      ELSE IF 2 * r > d THEN q + 1
      ELSE IF q % 2 = 0 THEN q ELSE q + 1

(***************************************************************************)
(* thousandeyes_calculator.py                                              *)
(***************************************************************************)
\* Catalog of the 13 kinds.  Rates in half milli-units: milli_cloud 5 is
\* 10, milli_enterprise 2.5 is 5, milli_cloud_per_sec 1 is 2, and so on.
FlatKind ==
  [ uses_timeout |-> FALSE, per_server |-> FALSE, no_agents |-> FALSE,
    milli_cloud |-> 10, milli_enterprise |-> 5 ]

TimeoutKind ==
  [ uses_timeout |-> TRUE, per_server |-> FALSE, no_agents |-> FALSE,
    milli_cloud |-> 2, milli_enterprise |-> 1 ]

TEST_TYPE_SCOPES ==
  [ red             |-> FlatKind,
    agent_to_agent  |-> FlatKind,
    agent_to_server |-> FlatKind,
    dns_server      |-> [FlatKind EXCEPT !.per_server = TRUE],
    dns_trace       |-> FlatKind,
    dnssec          |-> FlatKind,
    bgp             |-> [ uses_timeout |-> FALSE, per_server |-> FALSE,
                          no_agents |-> TRUE,
                          milli_cloud |-> 16, milli_enterprise |-> 16 ],
    http_server     |-> TimeoutKind,
    ftp_server      |-> TimeoutKind,
    page_load       |-> TimeoutKind,
    transaction     |-> TimeoutKind,
    sip_server      |-> TimeoutKind,
    rtp_stream      |-> TimeoutKind ]

Kinds == DOMAIN TEST_TYPE_SCOPES

TEST_TYPE_ALIASES ==
  << << <<"r","e","d">>, "red" >>,
     << <<"n","e","t","w","o","r","k">>, "red" >>,
     << <<"a","g","e","n","t","-","t","o","-","a","g","e","n","t">>,
        "agent_to_agent" >>,
     << <<"a","g","e","n","t","_","t","o","_","a","g","e","n","t">>,
        "agent_to_agent" >>,
     << <<"a","g","e","n","t","-","t","o","-","s","e","r","v","e","r">>,
        "agent_to_server" >>,
     << <<"a","g","e","n","t","_","t","o","_","s","e","r","v","e","r">>,
        "agent_to_server" >>,
     << <<"d","n","s"," ","s","e","r","v","e","r">>, "dns_server" >>,
     << <<"d","n","s","_","s","e","r","v","e","r">>, "dns_server" >>,
     << <<"d","n","s"," ","t","r","a","c","e">>, "dns_trace" >>,
     << <<"d","n","s","_","t","r","a","c","e">>, "dns_trace" >>,
     << <<"d","n","s","s","e","c">>, "dnssec" >>,
     << <<"b","g","p">>, "bgp" >>,
     << <<"h","t","t","p">>, "http_server" >>,
     << <<"h","t","t","p"," ","s","e","r","v","e","r">>, "http_server" >>,
     << <<"h","t","t","p","_","s","e","r","v","e","r">>, "http_server" >>,
     << <<"f","t","p">>, "ftp_server" >>,
     << <<"f","t","p"," ","s","e","r","v","e","r">>, "ftp_server" >>,
     << <<"p","a","g","e"," ","l","o","a","d">>, "page_load" >>,
     << <<"p","a","g","e","_","l","o","a","d">>, "page_load" >>,
     << <<"t","r","a","n","s","a","c","t","i","o","n">>, "transaction" >>,
     << <<"s","i","p">>, "sip_server" >>,
     << <<"s","i","p"," ","s","e","r","v","e","r">>, "sip_server" >>,
     << <<"r","t","p">>, "rtp_stream" >>,
     << <<"r","t","p"," ","s","t","r","e","a","m">>, "rtp_stream" >>,
     << <<"r","t","p","_","s","t","r","e","a","m">>, "rtp_stream" >>,
     << <<"w","e","b">>, "page_load" >> >>

AGENT_TYPE_ALIASES ==
  << << <<"c","l","o","u","d">>, "cloud" >>,
     << <<"e","n","t","e","r","p","r","i","s","e">>, "enterprise" >>,
     << <<"c","l","o","u">>, "cloud" >>,
     << <<"e","n","t","e","r","p","r","i","s">>, "enterprise" >> >>

MIN_INTERVAL == 1
MAX_INTERVAL == 60
MIN_TIMEOUT == 5
MAX_TIMEOUT == 180
DAYS_PROJECTION == 31

\* ThousandEyesTest.resolve_test_type
resolve_test_type(t) ==
  LET key == replace(replace(strip(lower(t.test_type)), " ", "_"), "-", "_")
  IN  DictGet(TEST_TYPE_ALIASES, key, "red")

\* ThousandEyesTest.resolve_agent_type
resolve_agent_type(t) ==
  LET a == strip(lower(t.agent_type))
  IN  DictGet(AGENT_TYPE_ALIASES, a, "enterprise")

\* get_milli_units with the DNS Server rate taken from milli_cloud for both
\* agent types
get_milli_units_cloud_dns(t) ==
  LET key   == resolve_test_type(t)
      agent == resolve_agent_type(t)
      cfg   == TEST_TYPE_SCOPES[key]
      base  == IF agent = "enterprise" THEN cfg.milli_enterprise
               ELSE cfg.milli_cloud
  IN  IF cfg.no_agents THEN cfg.milli_cloud
      ELSE IF cfg.uses_timeout THEN
        LET timeout0 == OrInt(t.timeout_seconds,
                              OrInt(t.rtp_duration_seconds, MIN_TIMEOUT))
            timeout  == Max(MIN_TIMEOUT, Min(MAX_TIMEOUT, timeout0))
        IN  base * timeout
      ELSE IF cfg.per_server THEN
        cfg.milli_cloud * Max(1, OrInt(t.dns_servers, 1))
      ELSE base

\* get_milli_units, in half milli-units
get_milli_units(t) ==
  LET key   == resolve_test_type(t)
      agent == resolve_agent_type(t)
      cfg   == TEST_TYPE_SCOPES[key]
      base  == IF agent = "enterprise" THEN cfg.milli_enterprise
               ELSE cfg.milli_cloud
  IN  IF cfg.no_agents THEN cfg.milli_cloud
      ELSE IF cfg.uses_timeout THEN
        LET timeout0 == OrInt(t.timeout_seconds,
                              OrInt(t.rtp_duration_seconds, MIN_TIMEOUT))
            timeout  == Max(MIN_TIMEOUT, Min(MAX_TIMEOUT, timeout0))
        IN  base * timeout
      ELSE IF cfg.per_server THEN
        base * Max(1, OrInt(t.dns_servers, 1))
      ELSE base

\* The agent count calculate_units_per_test multiplies by: its own lookup
\* of the kind lower-cases the text but neither strips nor replaces.
effective_agents(t) ==
  LET kind == DictGet(TEST_TYPE_ALIASES, lower(t.test_type), "red")
  IN  IF TEST_TYPE_SCOPES[kind].no_agents THEN 1 ELSE Max(1, t.num_agents)

\* calculate_units_per_test
calculate_units_per_test(t) ==
  LET milli    == get_milli_units(t)
      interval == Max(MIN_INTERVAL, Min(MAX_INTERVAL, t.interval_minutes))
      agents   == effective_agents(t)
      units    == round(milli * 60 * 24 * DAYS_PROJECTION * agents,
                        2 * 1000 * interval)
  IN  Max(1, units)

(***************************************************************************)
(* Inputs of the ThousandEyes engine.                                      *)
(***************************************************************************)
Pad(n) == [i \in 1..n |-> " "]

AliasKeys == { TEST_TYPE_ALIASES[i][1] : i \in 1..Len(TEST_TYPE_ALIASES) }

BaseTypeTexts == AliasKeys \cup { <<"v","o","i","c","e">>, <<>> }

\* the keys of TEST_TYPE_SCOPES as texts
KeyText ==
  [ red |-> <<"r","e","d">>,
    agent_to_agent |-> <<"a","g","e","n","t","_","t","o","_","a","g","e","n","t">>,
    agent_to_server |->
      <<"a","g","e","n","t","_","t","o","_","s","e","r","v","e","r">>,
    dns_server |-> <<"d","n","s","_","s","e","r","v","e","r">>,
    dns_trace |-> <<"d","n","s","_","t","r","a","c","e">>,
    dnssec |-> <<"d","n","s","s","e","c">>,
    bgp |-> <<"b","g","p">>,
    http_server |-> <<"h","t","t","p","_","s","e","r","v","e","r">>,
    ftp_server |-> <<"f","t","p","_","s","e","r","v","e","r">>,
    page_load |-> <<"p","a","g","e","_","l","o","a","d">>,
    transaction |-> <<"t","r","a","n","s","a","c","t","i","o","n">>,
    sip_server |-> <<"s","i","p","_","s","e","r","v","e","r">>,
    rtp_stream |-> <<"r","t","p","_","s","t","r","e","a","m">> ]

\* str.title(): a letter after a non-letter is upper-cased, any other
\* letter lower-cased
title(s) ==
  [i \in 1..Len(s) |->
     IF i = 1 \/ (LowerChar(s[i - 1]) = s[i - 1] /\ UpperChar(s[i - 1]) = s[i - 1])
     THEN UpperChar(s[i]) ELSE LowerChar(s[i])]

\* get_test_types_for_ui: the value and key of each item
get_test_types_for_ui ==
  { [value |-> title(replace(KeyText[k], "_", " ")), key |-> k] : k \in Kinds }

TypeTexts ==
  { Pad(p[1]) \o (IF up THEN upper(k) ELSE k) \o Pad(p[2]) :
      k \in BaseTypeTexts, up \in BOOLEAN,
      p \in { q \in (0..MaxPad) \X (0..MaxPad) : q[1] + q[2] <= MaxPad } }
    \cup { item.value : item \in get_test_types_for_ui }

AgentTexts ==
  { <<" ","C","L","O","U","D"," ">>,
    <<"E","N","T","E","R","P","R","I","S","E">>,
    <<"p","r","e","m","i","u","m">> }

Intervals == { 0, 5, 7, 9999 }

Timeouts == { None, Some(-1), Some(0), Some(2), Some(30), Some(500) }

\* <<dns_servers, rtp_duration_seconds>>
Extras ==
  { <<None, None>>, <<None, Some(100)>> }
    \cup { <<Some(n), None>> : n \in { 0, MaxServers } }

TestInputs ==
  { [ test_type |-> ty, interval_minutes |-> iv, num_agents |-> na,
      agent_type |-> at, timeout_seconds |-> to,
      dns_servers |-> ex[1], rtp_duration_seconds |-> ex[2] ] :
      ty \in TypeTexts, iv \in Intervals, na \in 0..MaxAgents,
      at \in AgentTexts, to \in Timeouts, ex \in Extras }

(***************************************************************************)
(* license_calculator.py: the two normalisation functions.                 *)
(*                                                                         *)
(* A value handed to parse_sessions_or_users is [tag, n, s]:               *)
(*   "None"                    None                                        *)
(*   "int"                     the int n                                   *)
(*   "float"                   the finite float n / 10                     *)
(*   "nan", "inf", "ninf"      float('nan'), float('inf'), float('-inf')   *)
(*   "str"                     the text s                                  *)
(* Its outcome is [tag, n]: "None", "int" with the value n, or the name of *)
(* the exception that leaves the function.                                 *)
(***************************************************************************)
PyNone == [tag |-> "None", n |-> 0, s |-> <<>>]

PyInt(i) == [tag |-> "int", n |-> i, s |-> <<>>]

PyFloat(tenths) == [tag |-> "float", n |-> tenths, s |-> <<>>]

PyNaN == [tag |-> "nan", n |-> 0, s |-> <<>>]

PyInf == [tag |-> "inf", n |-> 0, s |-> <<>>]

PyNegInf == [tag |-> "ninf", n |-> 0, s |-> <<>>]

PyStr(txt) == [tag |-> "str", n |-> 0, s |-> txt]

RetNone == [tag |-> "None", n |-> 0]

RetInt(i) == [tag |-> "int", n |-> i]

Raise(exc) == [tag |-> exc, n |-> 0]

DigitSeq == << "0", "1", "2", "3", "4", "5", "6", "7", "8", "9" >>

DigitVal(c) == (CHOOSE i \in 1..10 : DigitSeq[i] = c) - 1

RECURSIVE ParseNat(_)
\* int() of a run of digits
ParseNat(ds) ==
  IF ds = <<>> THEN 0
  ELSE 10 * ParseNat(SubSeq(ds, 1, Len(ds) - 1)) + DigitVal(ds[Len(ds)])

RECURSIVE Pow10(_)
Pow10(k) == IF k = 0 THEN 1 ELSE 10 * Pow10(k - 1)

\* \d+ from position i (s[i] a digit): index of the last digit of the run
RunEnd(s, i) ==
  CHOOSE j \in i..Len(s) :
    /\ \A k \in i..j : s[k] \in Digits
    /\ (j = Len(s) \/ s[j + 1] \notin Digits)

\* \s* after position e: index of the last whitespace of the run, e if none
WsEnd(s, e) ==
  CHOOSE j \in e..Len(s) :
    /\ \A k \in (e + 1)..j : s[k] \in Whitespace
    /\ (j = Len(s) \/ s[j + 1] \notin Whitespace)

RECURSIVE NumEnd(_, _)
\* (?:[\.,]\d+)* after a digit run that ends at j
NumEnd(s, j) ==
  IF j + 2 <= Len(s) /\ s[j + 1] \in { ".", "," } /\ s[j + 2] \in Digits
  THEN NumEnd(s, RunEnd(s, j + 2))
  ELSE j

\* (?:\s*k|\s*m)? after position e, case-insensitive
SuffixEnd(s, e) ==
  LET w == WsEnd(s, e)
  IN  IF w + 1 <= Len(s) /\ LowerChar(s[w + 1]) \in { "k", "m" }
      THEN w + 1 ELSE e

\* re.findall(r'(\d+(?:[\.,]\d+)*(?:\s*k|\s*m)?)', value, re.IGNORECASE):
\* the first match as <<text>>, None when there is no match
FirstNumber(s) ==
  LET ds == { i \in 1..Len(s) : s[i] \in Digits }
  IN  IF ds = {} THEN None
      ELSE LET i == CHOOSE a \in ds : \A b \in ds : a <= b
           IN  Some(SubSeq(s, i, SuffixEnd(s, NumEnd(s, RunEnd(s, i)))))

Count(s, c) == Cardinality({ i \in 1..Len(s) : s[i] = c })

Find(s, c) == CHOOSE i \in 1..Len(s) : s[i] = c /\ \A j \in 1..(i - 1) : s[j] # c

\* int(float(n) * multiplier) for n = digits or digits.digits: the product
\* is taken exactly and truncated
IntOfFloatTimes(n, multiplier) ==
  IF Count(n, ".") = 0 THEN ParseNat(n) * multiplier
  ELSE LET dot  == Find(n, ".")
           ip   == ParseNat(SubSeq(n, 1, dot - 1))
           fr   == SubSeq(n, dot + 1, Len(n))
       IN  ((ip * Pow10(Len(fr)) + ParseNat(fr)) * multiplier)
             \div Pow10(Len(fr))

\* the str branch of parse_sessions_or_users
parse_text(txt) ==
  LET numbers == FirstNumber(txt)
  IN  IF IsNone(numbers) THEN RetNone
      ELSE LET n0 == replace(lower(strip(Val(numbers))), ",", ".")
               multiplier == IF Count(n0, "k") > 0 THEN 1000
                             ELSE IF Count(n0, "m") > 0 THEN 1000000
                             ELSE 1
               n == IF Count(n0, "k") > 0 THEN strip(remove(n0, "k"))
                    ELSE IF Count(n0, "m") > 0 THEN strip(remove(n0, "m"))
                    ELSE n0
           IN  IF Count(n, ".") > 1 THEN RetNone \* float(n): ValueError, pass
               ELSE RetInt(IntOfFloatTimes(n, multiplier))

\* parse_sessions_or_users
parse_sessions_or_users(value) ==
  IF \/ value.tag = "None"
     \/ value.tag = "nan"
     \/ (value.tag = "float" /\ value.n = 0)
  THEN RetNone
  ELSE IF value.tag = "int" /\ value.n > 0 THEN RetInt(value.n)
  ELSE IF value.tag = "float" /\ value.n > 0 THEN RetInt(value.n \div 10)
  ELSE IF value.tag = "inf" THEN Raise("OverflowError") \* int(inf)
  ELSE IF value.tag = "str" THEN parse_text(value.s)
  ELSE RetNone

\* one of VCPU | vCPU | CPU | core at position p, case-insensitive
CoreToken(s, p) ==
  \/ /\ p + 3 <= Len(s)
     /\ lower(SubSeq(s, p, p + 3)) \in { <<"v","c","p","u">>,
                                         <<"c","o","r","e">> }
  \/ /\ p + 2 <= Len(s)
     /\ lower(SubSeq(s, p, p + 2)) = <<"c","p","u">>

\* starts of the matches of (\d+)\s*(?:VCPU|vCPU|CPU|core)
CoreMatches(s) ==
  { i \in 1..Len(s) :
      /\ s[i] \in Digits
      /\ (i = 1 \/ s[i - 1] \notin Digits)
      /\ CoreToken(s, WsEnd(s, RunEnd(s, i)) + 1) }

RECURSIVE SumCores(_, _)
SumCores(s, starts) ==
  IF starts = {} THEN 0
  ELSE LET i == CHOOSE a \in starts : TRUE
       IN  ParseNat(SubSeq(s, i, RunEnd(s, i))) + SumCores(s, starts \ {i})

\* SAPApplication.total_cores reading only the first match
sap_total_cores_first(cores_str, nodes) ==
  LET numbers == CoreMatches(cores_str)
  IN  IF numbers # {}
      THEN LET i == CHOOSE a \in numbers : \A b \in numbers : a <= b
           IN  ParseNat(SubSeq(cores_str, i, RunEnd(cores_str, i))) * nodes
      ELSE nodes * 4

\* SAPApplication.total_cores
sap_total_cores(cores_str, nodes) ==
  LET numbers == CoreMatches(cores_str)
  IN  IF numbers # {} THEN SumCores(cores_str, numbers) * nodes
      ELSE nodes * 4

(***************************************************************************)
(* license_calculator.py: the asset records and calculate_licenses.        *)
(*                                                                         *)
(* An asset is one record shape for the six dataclasses; `cat` names the   *)
(* list it belongs to and the fields a dataclass lacks keep a fixed value. *)
(* The text fields that are only copied into `details` (name, server,      *)
(* type, os, ...) are left out.                                            *)
(***************************************************************************)
RUM_TOKENS_PER_PAGEVIEW == 1
RUM_TOKENS_PER_ACTIVE_AGENT_MONTH == 160
RUM_BROWSER_PAGEVIEWS_PER_UNIT_ANNUAL == 10000000
RUM_MOBILE_ACTIVE_AGENTS_PER_UNIT == 5000
PAGEVIEWS_PER_USER_PER_MONTH == 20

Asset(cat, nodes, cores, web, secure, sessions, cores_str, agents) ==
  [ cat |-> cat, nodes |-> nodes, cores_per_node |-> cores,
    is_web_app |-> web, has_secure_app |-> secure,
    sessions_users_per_month |-> sessions, cores_str |-> cores_str,
    active_agents_per_month |-> agents ]

\* the total_cores property of Application, Database, SAPApplication,
\* Microservice and ServerVisibilityOnly
total_cores(a) ==
  IF a.cat = "sap_apps" THEN sap_total_cores(a.cores_str, a.nodes)
  ELSE a.nodes * a.cores_per_node

\* MobileApp.rum_tokens_per_month
rum_tokens_per_month(ma) ==
  OrInt(ma.active_agents_per_month, 0) * RUM_TOKENS_PER_ACTIVE_AGENT_MONTH

OfCat(assets, cat) == SelectSeq(assets, LAMBDA a : a.cat = cat)

RECURSIVE Sum(_)
\* sum() of a sequence of numbers
Sum(ns) == IF ns = <<>> THEN 0 ELSE Head(ns) + Sum(Tail(ns))

\* Pageviews without the is_web_app test
Pageviews_any(a) ==
  IF OrInt(a.sessions_users_per_month, 0) # 0
  THEN Val(a.sessions_users_per_month) * PAGEVIEWS_PER_USER_PER_MONTH
  ELSE 0

\* rum_pageviews contribution of one application or microservice
Pageviews(a) ==
  IF a.is_web_app /\ OrInt(a.sessions_users_per_month, 0) # 0
  THEN Val(a.sessions_users_per_month) * PAGEVIEWS_PER_USER_PER_MONTH
  ELSE 0

\* the generators calculate_licenses sums
CoresOf(xs) == [i \in 1..Len(xs) |-> total_cores(xs[i])]

\* NodesOf counting the cores of each record
NodesOf_cores(xs) == [i \in 1..Len(xs) |-> total_cores(xs[i])]

NodesOf(xs) == [i \in 1..Len(xs) |-> xs[i].nodes]

\* SecureCoresOf without the has_secure_app filter
SecureCoresOf_all(xs) == [i \in 1..Len(xs) |-> total_cores(xs[i])]

SecureCoresOf(xs) ==
  [i \in 1..Len(xs) |-> IF xs[i].has_secure_app THEN total_cores(xs[i]) ELSE 0]

PageviewsOf(xs) == [i \in 1..Len(xs) |-> Pageviews(xs[i])]

ActiveAgentsOf(xs) ==
  [i \in 1..Len(xs) |-> OrInt(xs[i].active_agents_per_month, 0)]

TokensOf(xs) == [i \in 1..Len(xs) |-> rum_tokens_per_month(xs[i])]

\* LicenseResult(): the two *_units floats are held as <<numerator,
\* denominator>>
EmptyResult ==
  [ apm_cores |-> 0, database_cores |-> 0, sap_cores |-> 0,
    microservices_containers |-> 0, server_visibility_instances |-> 0,
    server_visibility_only_cores |-> 0, secure_app_cores |-> 0,
    rum_browser_pageviews_monthly |-> 0, rum_browser_pageviews_annual |-> 0,
    rum_browser_units |-> <<0, 1>>, rum_browser_tokens_annual |-> 0,
    rum_mobile_active_agents |-> 0, rum_mobile_units |-> <<0, 1>>,
    rum_mobile_tokens_monthly |-> 0, details |-> <<>> ]

\* total_infrastructure_cores as total_apm_cores plus the database and SAP
\* cores
total_infrastructure_cores_apm(r) ==
  r.apm_cores + r.microservices_containers + r.database_cores + r.sap_cores

\* LicenseResult.total_infrastructure_cores
total_infrastructure_cores(r) ==
  r.apm_cores + r.database_cores + r.sap_cores + r.microservices_containers
    + r.server_visibility_only_cores + r.secure_app_cores

\* calculate_licenses on the six lists, given as one sequence of assets
calculate_licenses(assets) ==
  LET applications  == OfCat(assets, "applications")
      databases     == OfCat(assets, "databases")
      sap_apps      == OfCat(assets, "sap_apps")
      microservices == OfCat(assets, "microservices")
      sv_only       == OfCat(assets, "server_visibility_only")
      mobile_apps   == OfCat(assets, "mobile_apps")
      rum_pageviews == Sum(PageviewsOf(applications))
                         + Sum(PageviewsOf(microservices))
      annual        == rum_pageviews * 12
      tokens        == annual * RUM_TOKENS_PER_PAGEVIEW
      agents        == Sum(ActiveAgentsOf(mobile_apps))
  IN  [ server_visibility_only_cores |-> Sum(CoresOf(sv_only)),
        apm_cores |-> Sum(CoresOf(applications)),
        secure_app_cores |-> Sum(SecureCoresOf(applications)),
        database_cores |-> Sum(CoresOf(databases)),
        sap_cores |-> Sum(CoresOf(sap_apps)),
        microservices_containers |-> Sum(CoresOf(microservices)),
        server_visibility_instances |->
          Sum(NodesOf(applications)) + Sum(NodesOf(databases))
            + Sum(NodesOf(sap_apps)) + Sum(NodesOf(microservices)),
        rum_browser_pageviews_monthly |-> rum_pageviews,
        rum_browser_pageviews_annual |-> annual,
        rum_browser_tokens_annual |-> tokens,
        rum_browser_units |->
          <<tokens, RUM_BROWSER_PAGEVIEWS_PER_UNIT_ANNUAL>>,
        rum_mobile_active_agents |-> agents,
        rum_mobile_tokens_monthly |-> Sum(TokensOf(mobile_apps)),
        rum_mobile_units |-> <<agents, RUM_MOBILE_ACTIVE_AGENTS_PER_UNIT>>,
        details |->
          [i \in 1..Len(assets) |->
             IF assets[i].cat = "mobile_apps" THEN 0
             ELSE total_cores(assets[i])] ]

\* a ThousandEyesTest that stands for no test
NoTest ==
  [ test_type |-> <<>>, interval_minutes |-> 5, num_agents |-> 1,
    agent_type |-> <<>>, timeout_seconds |-> None,
    dns_servers |-> None, rtp_duration_seconds |-> None ]

\* calculate_thousandeyes: the units of each test and their total
calculate_thousandeyes(tests) ==
  [ total_units |->
      Sum([i \in 1..Len(tests) |-> calculate_units_per_test(tests[i])]),
    projection_days |-> DAYS_PROJECTION,
    units |-> [i \in 1..Len(tests) |-> calculate_units_per_test(tests[i])],
    resolved_type |-> [i \in 1..Len(tests) |-> resolve_test_type(tests[i])] ]

(***************************************************************************)
(* app.py: the request layer.  A JSON field is a value as above, with two  *)
(* more tags: "absent" (the key is missing) and "bool" (n is 0 or 1).      *)
(***************************************************************************)
RawAbsent == [tag |-> "absent", n |-> 0, s |-> <<>>]

PyBool(b) == [tag |-> "bool", n |-> IF b THEN 1 ELSE 0, s |-> <<>>]

\* dict.get(key, default)
Get(raw, default) == IF raw.tag = "absent" THEN default ELSE raw

\* truth value of a Python object
Truthy(v) ==
  CASE v.tag = "None" -> FALSE
    [] v.tag \in { "int", "float", "bool" } -> v.n # 0
    [] v.tag = "str" -> v.s # <<>>
    [] OTHER -> TRUE

\* x or y
Or(x, y) == IF Truthy(x) THEN x ELSE y

RECURSIVE NatToStr(_)
NatToStr(n) ==
  IF n < 10 THEN << DigitSeq[n + 1] >>
  ELSE NatToStr(n \div 10) \o << DigitSeq[(n % 10) + 1] >>

\* str(v)
str(v) ==
  CASE v.tag = "str" -> v.s
    [] v.tag = "int" ->
         IF v.n < 0 THEN <<"-">> \o NatToStr(-v.n) ELSE NatToStr(v.n)
    [] v.tag = "bool" ->
         IF v.n = 1 THEN <<"T","r","u","e">> ELSE <<"F","a","l","s","e">>
    [] OTHER -> <<"N","o","n","e">>

\* int(v): the outcome is an int or the exception raised
int(v) ==
  CASE v.tag \in { "int", "bool" } -> RetInt(v.n)
    [] v.tag = "float" ->
         RetInt(IF v.n >= 0 THEN v.n \div 10 ELSE -((-v.n) \div 10))
    [] v.tag = "str" ->
         LET t    == strip(v.s)
             neg  == t # <<>> /\ t[1] = "-"
             body == IF t # <<>> /\ t[1] \in { "-", "+" } THEN Tail(t) ELSE t
         IN  IF body # <<>> /\ \A i \in 1..Len(body) : body[i] \in Digits
             THEN RetInt(IF neg THEN -ParseNat(body) ELSE ParseNat(body))
             ELSE Raise("ValueError")
    [] v.tag = "nan" -> Raise("ValueError")
    [] v.tag \in { "inf", "ninf" } -> Raise("OverflowError")
    [] OTHER -> Raise("TypeError")

\* int(x.get(key, default) or default)
IntOr(raw, default) == int(Or(Get(raw, PyInt(default)), PyInt(default)))

Affirmative ==
  { <<"s","i">>, <<"s","i-acute">>, <<"y","e","s">>, <<"t","r","u","e">>,
    <<"1">> }

\* str(x.get(key, "")).lower() in ("si", "sí", "yes", "true", "1")
Flag(raw) == lower(str(Get(raw, PyStr(<<>>)))) \in Affirmative

\* the sessions_users_per_month of an application or microservice: an
\* optional int, or the exception raised.  The empty text is kept as it is
\* by the source and is falsy wherever it is read, as None is.
Sessions(raw) ==
  LET v == Get(raw, PyNone)
  IN  IF v.tag = "None" \/ (v.tag = "str" /\ v.s = <<>>) THEN RetNone
      ELSE parse_sessions_or_users(PyStr(str(v)))

\* the active_agents_per_month of a mobile app
Agents(raw) ==
  LET v == Get(raw, PyNone)
  IN  IF v.tag = "None" \/ (v.tag = "str" /\ v.s = <<>>) THEN RetNone
      ELSE IF int(v).tag \in { "ValueError", "TypeError" } THEN RetNone
      ELSE int(v)

Opt(ret) == IF ret.tag = "int" THEN Some(ret.n) ELSE None

\* One record of a request list turned into its dataclass: exc is the
\* exception raised on the way ("" when none), asset the record built.
\* Built takes the four converted fields, each converted once.
Convert(item) ==
  LET cat    == item.cat
      usesNC == cat # "mobile_apps"
      usesC  == cat \notin { "mobile_apps", "sap_apps" }
      usesS  == cat \in { "applications", "microservices" }
      Built(nodes, cores, sessions, agents) ==
        LET exc == IF usesS /\ sessions.tag \notin { "None", "int" }
                     THEN sessions.tag
                   ELSE IF usesNC /\ nodes.tag # "int" THEN nodes.tag
                   ELSE IF usesC /\ cores.tag # "int" THEN cores.tag
                   ELSE IF cat = "mobile_apps"
                             /\ agents.tag \notin { "None", "int" }
                     THEN agents.tag
                   ELSE ""
        IN  [ exc |-> exc,
              asset |->
                IF exc # ""
                THEN Asset(cat, 1, 4, FALSE, FALSE, None, <<>>, None)
                ELSE Asset(cat,
                           IF usesNC THEN nodes.n ELSE 1,
                           IF usesC THEN cores.n ELSE 4,
                           usesS /\ Flag(item.is_web_app),
                           cat = "applications" /\ Flag(item.has_secure_app),
                           IF usesS THEN Opt(sessions) ELSE None,
                           IF cat = "sap_apps"
                             THEN Get(item.cores_str, PyStr(<<"4">>)).s
                             ELSE <<>>,
                           IF cat = "mobile_apps" THEN Opt(agents) ELSE None) ]
  IN  Built(IntOr(item.nodes, 1),
            IntOr(item.cores_per_node, 4),
            Sessions(item.sessions_users_per_month),
            Agents(item.active_agents_per_month))

\* One record of thousandeyes_tests turned into a ThousandEyesTest; skip
\* when the record has no test_type.
ConvertTe(t) ==
  LET to == Get(t.timeout_seconds, PyNone)
      Built(interval, agents, timeout) ==
        LET exc == IF interval.tag # "int" THEN interval.tag
                   ELSE IF agents.tag # "int" THEN agents.tag
                   ELSE IF timeout.tag # "int" THEN timeout.tag
                   ELSE ""
        IN  [ skip |-> ~Truthy(Get(t.test_type, PyNone)),
              exc  |-> exc,
              test |->
                IF exc # "" THEN NoTest
                ELSE [ test_type |-> t.test_type.s,
                       interval_minutes |-> interval.n,
                       num_agents |-> agents.n,
                       agent_type |->
                         Get(t.agent_type,
                             PyStr(<<"E","N","T","E","R","P","R","I","S",
                                     "E">>)).s,
                       timeout_seconds |-> Some(timeout.n),
                       dns_servers |-> None,
                       rtp_duration_seconds |-> None ] ]
  IN  Built(IntOr(t.interval_minutes, 5),
            IntOr(t.num_agents, 1),
            IF to.tag # "None" /\ ~(to.tag = "str" /\ to.s = <<>>)
              THEN IntOr(t.timeout_seconds, 5) ELSE RetInt(5))

\* the records of a request list, converted in order
Converted(items) == [i \in 1..Len(items) |-> Convert(items[i])]

ConvertedTe(items) ==
  LET kept == SelectSeq(items, LAMBDA t : ~ConvertTe(t).skip)
  IN  [i \in 1..Len(kept) |-> ConvertTe(kept[i])]

NoTeResult ==
  [ total_units |-> 0, projection_days |-> DAYS_PROJECTION,
    units |-> <<>>, resolved_type |-> <<>> ]

\* jsonify({"success": False, "error": str(e)}), 400
ErrorResponse ==
  [ success |-> FALSE, status |-> 400, result |-> EmptyResult,
    total_infrastructure_cores |-> 0, te |-> NoTeResult ]

\* api_calculate: the lists handed to calculate_licenses and the response
api_calculate(req) ==
  LET Reply(assets, result) ==
        [ assets |-> assets,
          response |->
            [ success |-> TRUE, status |-> 200, result |-> result,
              total_infrastructure_cores |->
                total_infrastructure_cores(result),
              te |-> NoTeResult ] ]
      Respond(conv) ==
        LET failed == \E i \in 1..Len(conv) : conv[i].exc # ""
            assets == [i \in 1..Len(conv) |-> conv[i].asset]
        IN  IF failed THEN [ assets |-> <<>>, response |-> ErrorResponse ]
            ELSE Reply(assets, calculate_licenses(assets))
  IN  Respond(Converted(req))

\* api_calculate_te: the tests handed to calculate_thousandeyes and the
\* response
api_calculate_te(req) ==
  LET Respond(conv) ==
        LET failed == \E i \in 1..Len(conv) : conv[i].exc # ""
            tests  == [i \in 1..Len(conv) |-> conv[i].test]
        IN  IF failed THEN [ tests |-> <<>>, response |-> ErrorResponse ]
            ELSE [ tests |-> tests,
                   response |->
                     [ success |-> TRUE, status |-> 200,
                       result |-> EmptyResult,
                       total_infrastructure_cores |-> 0,
                       te |-> calculate_thousandeyes(tests) ] ]
  IN  Respond(ConvertedTe(req))

(***************************************************************************)
(* Spreadsheet ingestion.  A sheet read with header=None is a sequence of  *)
(* rows of one width; a cell is a Python value, NaN when empty.  Index k   *)
(* of the source is position k + 1 here.  A row or a sheet is read into    *)
(* [exc, recs]: the exception that leaves the function ("" when none) and  *)
(* the records appended.                                                   *)
(***************************************************************************)
NoRecs == [exc |-> "", recs |-> <<>>]

Raised(e) == [exc |-> e, recs |-> <<>>]

\* int(float(v)): the integer, or the exception raised
int_float(v) ==
  CASE v.tag = "int" -> RetInt(v.n)
    [] v.tag \in { "inf", "ninf" } -> Raise("OverflowError")
    [] v.tag = "nan" -> Raise("ValueError")
    [] v.tag = "float" ->
         RetInt(IF v.n >= 0 THEN v.n \div 10 ELSE -((-v.n) \div 10))
    [] v.tag = "str" ->
         LET u    == lower(strip(v.s))
             neg  == u # <<>> /\ u[1] = "-"
             body == IF u # <<>> /\ u[1] \in { "-", "+" } THEN Tail(u) ELSE u
         IN  IF body \in { <<"i","n","f">>,
                           <<"i","n","f","i","n","i","t","y">> }
               THEN Raise("OverflowError")
             ELSE IF /\ \A i \in 1..Len(body) : body[i] \in Digits \cup { "." }
                     /\ \E i \in 1..Len(body) : body[i] \in Digits
                     /\ Count(body, ".") <= 1
               THEN RetInt(IF neg THEN -IntOfFloatTimes(body, 1)
                           ELSE IntOfFloatTimes(body, 1))
             ELSE Raise("ValueError")
    [] OTHER -> Raise("TypeError")

\* [str(x).strip() if pd.notna(x) and str(x) != "nan" else None for x in row]
cell_texts(row) ==
  [i \in 1..Len(row) |->
     IF row[i].tag = "nan" \/ str(row[i]) = <<"n","a","n">> THEN None
     ELSE Some(strip(str(row[i])))]

\* name = vals[1] if len(vals) > 1 else None, and the test that skips the
\* row: not name or name.lower() in skipped
unnamed(vals, skipped) ==
  \/ Len(vals) <= 1
  \/ IsNone(vals[2])
  \/ Val(vals[2]) = <<>>
  \/ lower(Val(vals[2])) \in skipped \cup { <<"n","a","n">> }

\* int(float(v)) if v and str(v).replace(".", "").isdigit() else default,
\* with .replace("-", "") as well when dashes
digit_cell(v, dashes, default) ==
  LET t == IF IsNone(v) THEN <<>>
           ELSE remove(IF dashes THEN remove(Val(v), "-") ELSE Val(v), ".")
  IN  IF t # <<>> /\ \A i \in 1..Len(t) : t[i] \in Digits
      THEN int_float(PyStr(Val(v)))
      ELSE RetInt(default)

\* str(v).lower() in words if v else False
said(v, words) == ~IsNone(v) /\ Val(v) # <<>> /\ lower(Val(v)) \in words

\* one row of the applications table (rows 3-5)
app_row(vals) ==
  LET Built(nodes, cores) ==
        LET ok == nodes.tag = "int" /\ cores.tag = "int"
        IN  [ exc |-> "",
              recs |->
                << Asset("applications",
                         IF ok THEN nodes.n ELSE 1,
                         IF ok THEN cores.n ELSE 4,
                         said(vals[8], Affirmative), FALSE,
                         IF Len(vals) > 8
                           THEN Opt(parse_sessions_or_users(
                                      IF IsNone(vals[9]) THEN PyNone
                                      ELSE PyStr(Val(vals[9]))))
                           ELSE None,
                         <<>>, None) >> ]
  IN  IF unnamed(vals, {}) THEN NoRecs
      ELSE IF Len(vals) <= 7 THEN Raised("IndexError") \* vals[5], [6], [7]
      ELSE Built(digit_cell(vals[6], FALSE, 1), digit_cell(vals[7], TRUE, 4))

\* one row of the databases table (rows 9-11)
db_row(vals) ==
  LET Built(cores, nodes) ==
        LET ok == nodes.tag = "int" /\ cores.tag = "int"
        IN  [ exc |-> "",
              recs |->
                << Asset("databases",
                         IF ok THEN nodes.n ELSE 1,
                         IF ok THEN cores.n ELSE 4,
                         FALSE, FALSE, None, <<>>, None) >> ]
  IN  IF unnamed(vals, { <<"d","b">> }) THEN NoRecs
      ELSE IF Len(vals) <= 6 THEN Raised("IndexError") \* vals[3] ... [6]
      ELSE Built(digit_cell(vals[4], FALSE, 4), digit_cell(vals[5], FALSE, 1))

\* one row of the SAP table (rows 17-18)
sap_row(vals) ==
  LET Built(nodes) ==
        [ exc |-> "",
          recs |->
            << Asset("sap_apps",
                     IF nodes.tag = "int" THEN nodes.n ELSE 1,
                     4, FALSE, FALSE, None,
                     IF Len(vals) > 6 /\ ~IsNone(vals[7]) /\ Val(vals[7]) # <<>>
                       THEN Val(vals[7])
                     ELSE IF Len(vals) > 5 /\ ~IsNone(vals[6])
                               /\ Val(vals[6]) # <<>>
                       THEN Val(vals[6])
                     ELSE <<"4">>,
                     None) >> ]
  IN  IF unnamed(vals, {}) THEN NoRecs
      ELSE IF Len(vals) <= 4 THEN Raised("IndexError") \* vals[4]
      ELSE Built(digit_cell(vals[5], FALSE, 1))

\* one row of the microservices table (rows 22-23)
micro_row(vals) ==
  IF unnamed(vals, { <<"n","o"," ","a","p","l","i","c","a">> }) THEN NoRecs
  ELSE IF Len(vals) <= 3 THEN Raised("IndexError") \* vals[2], vals[3]
  ELSE [ exc |-> "",
         recs |->
           << Asset("microservices", 1, 4,
                    Len(vals) > 8
                      /\ said(vals[9], { <<"s","i">>, <<"s","i-acute">>,
                                         <<"y","e","s">> }),
                    FALSE,
                    IF Len(vals) > 9
                      THEN Opt(parse_sessions_or_users(
                                 IF IsNone(vals[10]) THEN PyNone
                                 ELSE PyStr(Val(vals[10]))))
                      ELSE None,
                    <<>>, None) >> ]

\* one row of the mobile apps table (rows 31-32)
mobile_row(vals) ==
  IF unnamed(vals, { <<"n","o"," ","a","p","l","i","c","a">>, <<"a","p","p">> })
    THEN NoRecs
  ELSE IF Len(vals) <= 4 THEN Raised("IndexError") \* vals[2], [3], [4]
  ELSE [ exc |-> "",
         recs |-> << Asset("mobile_apps", 1, 4, FALSE, FALSE, None, <<>>,
                           None) >> ]

\* v(i, default) of parse_excel_thousandeyes, over vals = the first 8 cells
te_cell(row, i, default) ==
  IF i >= Len(row) \/ row[i + 1].tag = "nan"
       \/ (row[i + 1].tag = "float" /\ row[i + 1].n = 0)
  THEN default ELSE row[i + 1]

\* one row of the ThousandeyesV1 sheet (rows 3 on)
te_row(row) ==
  LET num(i, default) ==
        int_float(Or(te_cell(row, i, PyNone), PyInt(default)))
      kept(ret, default) ==
        IF ret.tag \in { "ValueError", "TypeError" } THEN RetInt(default)
        ELSE ret
      agent == upper(strip(str(te_cell(row, 5,
                 PyStr(<<"E","N","T","E","R","P","R","I","S","E">>)))))
      Built(interval, agents, timeout) ==
        IF interval.tag # "int" THEN Raised(interval.tag)
        ELSE IF agents.tag # "int" THEN Raised(agents.tag)
        ELSE IF timeout.tag # "int" THEN Raised(timeout.tag)
        ELSE [ exc |-> "",
               recs |->
                 << [ test_type |-> strip(str(te_cell(row, 2, PyStr(<<>>)))),
                      interval_minutes |-> interval.n,
                      num_agents |-> agents.n,
                      agent_type |->
                        IF agent = <<>>
                        THEN <<"E","N","T","E","R","P","R","I","S","E">>
                        ELSE agent,
                      timeout_seconds |-> Some(timeout.n),
                      dns_servers |-> None,
                      rtp_duration_seconds |-> None ] >> ]
  IN  IF \/ ~Truthy(te_cell(row, 2, PyNone))
         \/ lower(strip(str(te_cell(row, 2, PyStr(<<>>)))))
              \in { <<>>, <<"n","a","n">> }
      THEN NoRecs
      ELSE Built(kept(num(3, 5), 5), kept(num(4, 1), 1), kept(num(6, 5), 5))

\* the row loops of the two parsers, from index idx on: the anexo tables
\* sit at fixed row indices, the tests on every row from 3
sheet_row(anexo, idx, row) ==
  IF ~anexo THEN (IF idx >= 3 THEN te_row(row) ELSE NoRecs)
  ELSE CASE idx \in 3..5 -> app_row(cell_texts(row))
         [] idx \in 9..11 -> db_row(cell_texts(row))
         [] idx \in 17..18 -> sap_row(cell_texts(row))
         [] idx \in 22..23 -> micro_row(cell_texts(row))
         [] idx \in 31..32 -> mobile_row(cell_texts(row))
         [] OTHER -> NoRecs

RECURSIVE read_rows(_, _, _)
read_rows(anexo, df, idx) ==
  LET Then(r, rest) ==
        IF r.exc # "" THEN r
        ELSE IF rest.exc # "" THEN rest
        ELSE [ exc |-> "", recs |-> r.recs \o rest.recs ]
  IN  IF idx >= Len(df) THEN NoRecs
      ELSE Then(sheet_row(anexo, idx, df[idx + 1]),
                read_rows(anexo, df, idx + 1))

\* pd.ExcelFile(filepath): the workbook stored at the path, or the
\* exception raised
ExcelFile(files, filepath) ==
  IF filepath \notin DOMAIN files THEN "FileNotFoundError"
  ELSE IF ~files[filepath].book.readable THEN "BadZipFile"
  ELSE ""

\* parse_excel_anexo_aplicaciones
parse_excel_anexo_aplicaciones(files, filepath) ==
  IF ExcelFile(files, filepath) # "" THEN Raised(ExcelFile(files, filepath))
  ELSE IF "Anexo Aplicaciones" \notin files[filepath].book.sheet_names
    THEN Raised("ValueError")
  ELSE read_rows(TRUE, files[filepath].book.anexo, 0)

\* parse_excel_thousandeyes with a missing sheet raised as the other parser
\* raises it
parse_excel_thousandeyes_strict(files, filepath) ==
  IF ExcelFile(files, filepath) # "" THEN Raised(ExcelFile(files, filepath))
  ELSE IF "ThousandeyesV1" \notin files[filepath].book.sheet_names
    THEN Raised("ValueError")
  ELSE read_rows(FALSE, files[filepath].book.te, 0)

\* parse_excel_thousandeyes
parse_excel_thousandeyes(files, filepath) ==
  IF ExcelFile(files, filepath) # "" THEN Raised(ExcelFile(files, filepath))
  ELSE IF "ThousandeyesV1" \notin files[filepath].book.sheet_names
    THEN NoRecs
  ELSE read_rows(FALSE, files[filepath].book.te, 0)

\* allowed_file
allowed_file(filename) ==
  /\ Count(filename, ".") > 0
  /\ LET dot == CHOOSE i \in 1..Len(filename) :
                  filename[i] = "." /\ \A j \in (i + 1)..Len(filename) :
                                         filename[j] # "."
     IN  lower(SubSeq(filename, dot + 1, Len(filename)))
           \in { <<"x","l","s","x">>, <<"x","l","s">> }

\* secure_filename, on names of letters, digits, dots and single spaces
secure_filename(filename) == replace(strip(filename), " ", "_")

\* the three early returns of api_parse_excel
rejected(u) ==
  ~u.has_file \/ u.filename = <<>> \/ ~allowed_file(u.filename)

BadRequest(e) ==
  [ success |-> FALSE, status |-> 400, error |-> e, data |-> <<>>,
    thousandeyes_tests |-> <<>> ]

\* api_parse_excel run from start to end with nothing else touching the
\* upload folder, which holds files before
api_parse_excel(files, u) ==
  LET filepath == secure_filename(u.filename)
      saved == [x \in DOMAIN files \cup { filepath } |->
                  IF x = filepath THEN [book |-> u.book, owner |-> 0]
                  ELSE files[x]]
      Reply(parsed, te_tests) ==
        IF parsed.exc # "" THEN BadRequest(parsed.exc)
        ELSE IF te_tests.exc # "" THEN BadRequest(te_tests.exc)
        ELSE [ success |-> TRUE, status |-> 200, error |-> "",
               data |-> parsed.recs, thousandeyes_tests |-> te_tests.recs ]
  IN  IF ~u.has_file THEN BadRequest("no file")
      ELSE IF u.filename = <<>> THEN BadRequest("no name")
      ELSE IF ~allowed_file(u.filename) THEN BadRequest("not allowed")
      ELSE Reply(parse_excel_anexo_aplicaciones(saved, filepath),
                 parse_excel_thousandeyes(saved, filepath))

(***************************************************************************)
(* Inputs of the normalisation functions.                                  *)
(***************************************************************************)
NumberTexts ==
  { <<"0">>, <<"5">>, <<"2","0","0","0">>, <<"1",".","5">>, <<"1",",","5">>,
    <<"0",".","4">>, <<"1",".","2",".","3">> }

Prefixes == { <<>>, <<"a","p","r","o","x"," ">> }

Suffixes ==
  { <<>>, <<"k">>, <<"K">>, <<"M">>, <<"k","m">>,
    <<"m","e","s","e","s">>, <<"u","s","u","a","r","i","o","s">> }

CountTexts ==
  { p \o n \o Pad(g) \o x :
      p \in Prefixes, n \in NumberTexts, g \in 0..MaxGap, x \in Suffixes }
    \cup { <<>>, <<"n","/","a">> }

ValueInputs ==
  { PyNone, PyNaN, PyInf, PyNegInf }
    \cup { PyInt(i) : i \in -1..MaxCount }
    \cup { PyFloat(f) : f \in { -15, 0, 4, 27 } }
    \cup { PyStr(txt) : txt \in CountTexts }

CoreTexts ==
  { <<>>, <<"4">>, <<"n","o"," ","i","n","f","o">>,
    <<"0"," ","V","C","P","U">>, <<"2"," ","c","p","u">>,
    <<"8","c","o","r","e","s">>, <<"1","6"," ","G","B"," ","4","v","C","P","U">>,
    <<"A","S","C","S"," ","2"," ","V","C","P","U",","," ","P","r","i","m",
      "a","r","i","o"," ","A","P","P"," ","S","e","r","v","e","r"," ",
      "1","6"," ","V","C","P","U">> }

\* pieces of a cores_str: the text of one server and the cores it names
\* (None when it names none)
CoreParts ==
  { [text |-> <<"2"," ","V","C","P","U">>, cores |-> Some(2)],
    [text |-> <<"1","6","v","c","p","u">>, cores |-> Some(16)],
    [text |-> <<"8"," ","C","o","r","e","s">>, cores |-> Some(8)],
    [text |-> <<"0"," ","C","P","U">>, cores |-> Some(0)],
    [text |-> <<"3"," "," ","c","o","r","e">>, cores |-> Some(3)],
    [text |-> <<"4"," ","G","B">>, cores |-> None],
    [text |-> <<"5"," ","v"," ","C","P","U">>, cores |-> None],
    [text |-> <<"1","2"," ","v","c","p">>, cores |-> None],
    [text |-> <<"x">>, cores |-> None] }

PartSep == <<",", " ">>

PartTexts == { a.text \o PartSep \o b.text : a, b \in CoreParts }

SapInputs ==
  { [cores_str |-> c, nodes |-> n] :
      c \in CoreTexts \cup PartTexts, n \in -1..MaxNodes }

(***************************************************************************)
(* Inputs of the licence engine.                                           *)
(***************************************************************************)
AssetInputs ==
  { Asset("applications", n, 4, w, x, s, <<>>, None) :
      n \in { 1, MaxNodes }, w \in BOOLEAN, x \in BOOLEAN,
      s \in { None, Some(0), Some(MaxCount) } }
    \cup { Asset("databases", n, 8, FALSE, FALSE, None, <<>>, None) :
              n \in { 1, MaxNodes } }
    \cup { Asset("sap_apps", n, 4, FALSE, FALSE, None, c, None) :
              n \in { 1, MaxNodes }, c \in { <<>>, <<"2"," ","V","C","P","U">> } }
    \cup { Asset("microservices", 1, c, w, FALSE, s, <<>>, None) :
              c \in { 2, 4 }, w \in BOOLEAN, s \in { None, Some(5) } }
    \cup { Asset("server_visibility_only", n, 2, FALSE, FALSE, None, <<>>, None) :
              n \in { 1, MaxNodes } }
    \cup { Asset("mobile_apps", 1, 4, FALSE, FALSE, None, <<>>, a) :
              a \in { None, Some(MaxAgents) } }

Inventories ==
  { <<>> } \cup { <<a>> : a \in AssetInputs }
    \cup { <<a, b>> : a, b \in AssetInputs }

\* the int fields of LicenseResult that count cores or instances
CountFields ==
  { "apm_cores", "database_cores", "sap_cores", "microservices_containers",
    "server_visibility_only_cores", "secure_app_cores",
    "server_visibility_instances" }

(***************************************************************************)
(* Inputs of the spreadsheet ingestion.                                    *)
(***************************************************************************)
\* a sheet of n rows of width w: the placed rows at their indices, cut or
\* padded to the width, empty cells elsewhere
Sheet(n, w, placed) ==
  [r \in 1..n |->
     [i \in 1..w |->
        IF (r - 1) \in DOMAIN placed /\ i <= Len(placed[r - 1])
        THEN placed[r - 1][i] ELSE PyNaN]]

NodeCells ==
  { PyNaN, PyInt(MaxNodes + 1), PyStr(<<"0">>), PyStr(<<"1",".","2",".","3">>),
    PyStr(<<"a","b","c">>) }

CoreCells == { PyNaN, PyInt(8), PyStr(<<"-","3">>), PyStr(<<"3","-","4">>) }

AppRows ==
  { << PyNaN, PyStr(<<"A","p","p">>), PyStr(<<"J","b","o","s","s">>), PyNaN,
       PyNaN, n, c, w, s >> :
      n \in NodeCells, c \in CoreCells,
      w \in { PyNaN, PyStr(<<"S","i">>) },
      s \in { PyNaN, PyStr(<<"2","0","0","0">>) } }

DbRows ==
  { << PyNaN, PyStr(nm), PyInt(11), c, n, PyStr(<<"R","H","E","L">>), PyNaN >> :
      nm \in { <<"O","r","a","c","l","e">>, <<"D","B">> },
      c \in { PyInt(12), PyStr(<<"x">>) },
      n \in { PyInt(MaxNodes), PyStr(<<"1",".","2",".","3">>) } }

SapRows ==
  { << PyNaN, PyStr(<<"S","A","P">>), PyNaN, PyNaN, n, c, d >> :
      n \in { PyNaN, PyInt(MaxNodes) },
      c \in { PyNaN, PyStr(<<"8"," ","c","o","r","e","s">>) },
      d \in { PyNaN, PyStr(<<"2"," ","V","C","P","U">>) } }

MicroRows ==
  { << PyNaN, PyStr(nm), PyNaN, PyNaN, PyNaN, PyNaN, PyNaN, PyNaN, w,
       PyStr(<<"5","k">>) >> :
      nm \in { <<"c","a","r","t">>, <<"N","o"," ","a","p","l","i","c","a">> },
      w \in { PyStr(<<"y","e","s">>), PyStr(<<"1">>) } }

MobileRows ==
  { << PyNaN, PyStr(nm), PyNaN, PyStr(<<"i","O","S">>), PyNaN >> :
      nm \in { <<"b","a","n","k">>, <<"A","p","p">> } }

Widths == { 1, 2, 4, 5, 6, 7, 8, 9, 10 }

AnexoSheets ==
  { Sheet(n, w, 3 :> a) : n \in { 3, 4 }, w \in { 8, 9 }, a \in AppRows }
    \cup { Sheet(12, w, 3 :> a @@ 9 :> d) :
              w \in Widths, d \in DbRows,
              a \in { a \in AppRows : a[6] = PyNaN /\ a[9] = PyNaN } }
    \cup { Sheet(33, w, 17 :> s @@ 22 :> m @@ 31 :> b) :
              w \in Widths, s \in SapRows, m \in MicroRows, b \in MobileRows }

TeRows ==
  { << PyNaN, PyNaN, ty, iv, na, PyStr(<<" ","c","l","o","u","d">>), PyInt(30) >> :
      ty \in { PyStr(<<"H","T","T","P">>), PyNaN, PyInt(0) },
      iv \in { PyInt(MaxAgents), PyFloat(0), PyFloat(25), PyStr(<<"a","b","c">>),
               PyStr(<<"i","n","f">>), PyInf },
      na \in { PyNaN, PyInt(MaxAgents) } }

TeSheets == { Sheet(5, w, 3 :> t @@ 4 :> u) :
                w \in { 3, 5, 7, 8 }, t \in TeRows,
                u \in { u \in TeRows : u[4] = PyInt(MaxAgents) } }

Book(readable, sheet_names, anexo, te) ==
  [ readable |-> readable, sheet_names |-> sheet_names, anexo |-> anexo,
    te |-> te ]

\* workbooks that differ in the sheets they hold and in what can be read
FewBooks ==
  LET a == Sheet(4, 9, 3 :> << PyNaN, PyStr(<<"A","p","p">>), PyNaN, PyNaN,
                               PyNaN, PyInt(MaxNodes) >>)
      b == Sheet(4, 9, 3 :> << PyNaN, PyStr(<<"W","e","b">>) >>)
      t == Sheet(4, 8, 3 :> << PyNaN, PyNaN, PyStr(<<"B","G","P">>) >>)
  IN  { Book(TRUE, { "Anexo Aplicaciones", "ThousandeyesV1" }, a, t),
        Book(TRUE, { "Anexo Aplicaciones", "ThousandeyesV1" }, b, <<>>),
        Book(TRUE, { "Anexo Aplicaciones" }, a, <<>>),
        Book(TRUE, { "ThousandeyesV1" }, <<>>, t),
        Book(FALSE, {}, <<>>, <<>>) }

Books ==
  FewBooks
    \cup { Book(TRUE, { "Anexo Aplicaciones", "ThousandeyesV1" }, a, <<>>) :
              a \in AnexoSheets }
    \cup { Book(TRUE, { "Anexo Aplicaciones", "ThousandeyesV1" }, <<>>, t) :
              t \in TeSheets }

Filenames ==
  { <<"a",".","x","l","s","x">>, <<"a"," ","b",".","X","L","S">>,
    <<"a",".","t","x","t">>, <<>> }

Upload(has_file, filename, book) ==
  [ has_file |-> has_file, filename |-> filename, book |-> book ]

NoUpload == Upload(FALSE, <<>>, Book(FALSE, {}, <<>>, <<>>))

\* what one client may send when it is the only one
Uploads ==
  { Upload(TRUE, <<"a",".","x","l","s","x">>, b) : b \in Books }
    \cup { Upload(TRUE, f, b) : f \in Filenames, b \in FewBooks }
    \cup { NoUpload }

\* what each of two clients may send at the same time
FewUploads ==
  { Upload(TRUE, f, b) : f \in Filenames, b \in FewBooks }

(***************************************************************************)
(* Inputs of the request layer.                                            *)
(***************************************************************************)
RawNodes ==
  { RawAbsent, PyNone, PyInt(0), PyInt(-1), PyInt(MaxNodes),
    PyStr(<<"3">>), PyStr(<<"0">>), PyStr(<<"a","b","c">>) }

RawCores == { RawAbsent, PyInt(8), PyStr(<<"-","2">>), PyStr(<<"x">>) }

RawItem(cat, nodes, cores, web, secure, sessions, cores_str, agents) ==
  [ cat |-> cat, nodes |-> nodes, cores_per_node |-> cores,
    is_web_app |-> web, has_secure_app |-> secure,
    sessions_users_per_month |-> sessions, cores_str |-> cores_str,
    active_agents_per_month |-> agents ]

\* <<is_web_app, has_secure_app, sessions_users_per_month>>
RawWebFields ==
  { <<RawAbsent, RawAbsent, RawAbsent>>,
    <<PyStr(<<"S","i">>), PyBool(TRUE), PyInt(2000)>>,
    <<PyStr(<<"S","I-acute">>), PyStr(<<"n","o">>), PyInt(0)>>,
    <<PyStr(<<"n","o">>), PyStr(<<"1">>),
      PyStr(<<"1",",","5"," ","K">>)>> }

RawItems ==
  { RawItem("applications", n, c, w[1], w[2], w[3], RawAbsent, RawAbsent) :
      n \in RawNodes, c \in RawCores, w \in RawWebFields }
  \cup
  { RawItem("microservices", n, c, w[1], RawAbsent, w[3], RawAbsent,
            RawAbsent) :
      n \in RawNodes, c \in RawCores, w \in RawWebFields }
  \cup
  { RawItem(cat, n, c, RawAbsent, RawAbsent, RawAbsent, RawAbsent,
            RawAbsent) :
      cat \in { "databases", "server_visibility_only" },
      n \in RawNodes, c \in RawCores }
  \cup
  { RawItem("sap_apps", n, RawAbsent, RawAbsent, RawAbsent, RawAbsent,
            PyStr(cs), RawAbsent) :
      n \in RawNodes, cs \in CoreTexts }
  \cup
  { RawItem("sap_apps", n, RawAbsent, RawAbsent, RawAbsent, RawAbsent,
            RawAbsent, RawAbsent) : n \in RawNodes }
  \cup
  { RawItem("mobile_apps", RawAbsent, RawAbsent, RawAbsent, RawAbsent,
            RawAbsent, RawAbsent, a) :
      a \in { RawAbsent, PyStr(<<>>), PyStr(<<"x">>), PyInt(5000),
              PyStr(<<"7">>) } }

\* the records a second record is put after
LeadItems ==
  { RawItem("applications", PyInt(MaxNodes), PyInt(8), PyStr(<<"S","i">>),
            PyBool(TRUE), PyInt(2000), RawAbsent, RawAbsent),
    RawItem("databases", PyStr(<<"3">>), RawAbsent, RawAbsent, RawAbsent,
            RawAbsent, RawAbsent, RawAbsent),
    RawItem("mobile_apps", RawAbsent, RawAbsent, RawAbsent, RawAbsent,
            RawAbsent, RawAbsent, PyInt(5000)) }

\* the bodies of POST /api/calculate
CalcRequests ==
  { <<>> } \cup { <<x>> : x \in RawItems }
    \cup { <<a, x>> : a \in LeadItems, x \in RawItems }

RawTest(ty, iv, na, at, to) ==
  [ test_type |-> ty, interval_minutes |-> iv, num_agents |-> na,
    agent_type |-> at, timeout_seconds |-> to ]

RawTests ==
  { RawTest(ty, iv, na, at, to) :
      ty \in { RawAbsent, PyStr(<<"b","g","p"," ">>),
               PyStr(<<"H","T","T","P">>) },
      iv \in { RawAbsent, PyInt(0), PyStr(<<"1","0">>),
               PyStr(<<"a","b","c">>) },
      na \in { RawAbsent, PyInt(MaxAgents), PyStr(<<"x">>) },
      at \in { RawAbsent, PyStr(<<"c","l","o","u","d">>) },
      to \in { RawAbsent, PyNone, PyStr(<<>>), PyInt(0), PyInt(30),
               PyStr(<<"a","b","c">>) } }

LeadTests ==
  { RawTest(PyStr(<<"d","n","s"," ","t","r","a","c","e">>), PyInt(5),
            PyInt(1), RawAbsent, RawAbsent) }

\* the bodies of POST /api/calculate-te
TeRequests ==
  { <<>> } \cup { <<x>> : x \in RawTests }
    \cup { <<a, x>> : a \in LeadTests, x \in RawTests }

(***************************************************************************)
(* State.                                                                  *)
(***************************************************************************)
VARIABLES
  test,      \* the ThousandEyesTest handed to the engine
  te_pc,     \* "idle" | "start" | "rated" | "done"
  te_key,    \* key of get_milli_units, resolved_type of the result record
  te_agent,  \* agent of get_milli_units
  te_milli,  \* value returned by get_milli_units, half milli-units
  te_units,  \* units of the result record
  norm_pc,   \* "idle" | "parse" | "parsed" | "cores" | "counted"
  value,     \* the argument of parse_sessions_or_users
  parsed,    \* its outcome
  sap,       \* a SAPApplication: cores_str and nodes
  sap_cores, \* its total_cores
  api_pc,    \* "idle" | "calculate" | "calculated" | "calculate-te" |
             \* "calculated-te"
  request,   \* the list of records in the body of the request
  api_assets, \* the dataclass records handed to calculate_licenses
  api_tests, \* the ThousandEyesTest records handed to calculate_thousandeyes
  response,  \* the response of the endpoint
  inventory, \* the records handed to calculate_licenses, the six lists as one
  lic,       \* a LicenseResult
  lic_pc,    \* "idle" | "new" | "calculated"
  lic_sets,  \* number of fields assigned since calculate_licenses returned
  lic_total, \* the value total_infrastructure_cores gave when last read
  lic_fresh, \* no field was assigned since that read
  uploads,   \* the files of UPLOAD_FOLDER: path -> workbook and its writer
  upload,    \* per request of /api/parse-excel, what the client sent
  up_pc,     \* per request, "idle" | "received" | "saved" | "parsed" |
             \* "read" | "done"
  up_parsed, \* per request, the records of parse_excel_anexo_aplicaciones
  up_te_tests, \* per request, the records of parse_excel_thousandeyes
  up_response  \* per request, the response of the endpoint

teVars == << test, te_pc, te_key, te_agent, te_milli, te_units >>

normVars == << norm_pc, value, parsed, sap, sap_cores >>

apiVars == << api_pc, request, api_assets, api_tests, response >>

licVars == << inventory, lic, lic_pc, lic_sets, lic_total, lic_fresh >>

upVars == << uploads, upload, up_pc, up_parsed, up_te_tests, up_response >>

vars == << teVars, normVars, apiVars, licVars, upVars >>

(***************************************************************************)
(* The ThousandEyes engine on one test.                                    *)
(***************************************************************************)
IdleTE ==
  /\ test = NoTest
  /\ te_pc = "idle"
  /\ te_key = "red"
  /\ te_agent = "enterprise"
  /\ te_milli = 0
  /\ te_units = 0

InitTE ==
  /\ test \in TestInputs
  /\ te_pc = "start"
  /\ te_key = "red"
  /\ te_agent = "enterprise"
  /\ te_milli = 0
  /\ te_units = 0

\* get_milli_units(test), with its locals key and agent
GetMilliUnits ==
  /\ te_pc = "start"
  /\ te_key' = resolve_test_type(test)
  /\ te_agent' = resolve_agent_type(test)
  /\ te_milli' = get_milli_units(test)
  /\ te_pc' = "rated"
  /\ UNCHANGED << test, te_units >>
  /\ UNCHANGED << normVars, apiVars, licVars, upVars >>

\* calculate_thousandeyes([test]): the one pass of its loop
CalculateThousandEyes ==
  /\ te_pc = "rated"
  /\ te_units' = calculate_units_per_test(test)
  /\ te_key' = resolve_test_type(test)
  /\ te_pc' = "done"
  /\ UNCHANGED << test, te_agent, te_milli >>
  /\ UNCHANGED << normVars, apiVars, licVars, upVars >>

(***************************************************************************)
(* The normalisation functions on one argument.                            *)
(***************************************************************************)
NoSap == [cores_str |-> <<>>, nodes |-> 1]

IdleNorm ==
  /\ norm_pc = "idle"
  /\ value = PyNone
  /\ parsed = RetNone
  /\ sap = NoSap
  /\ sap_cores = 0

InitNorm ==
  /\ parsed = RetNone
  /\ sap_cores = 0
  /\ \/ norm_pc = "parse" /\ value \in ValueInputs /\ sap = NoSap
     \/ norm_pc = "cores" /\ value = PyNone /\ sap \in SapInputs

\* parse_sessions_or_users(value)
ParseSessionsOrUsers ==
  /\ norm_pc = "parse"
  /\ parsed' = parse_sessions_or_users(value)
  /\ norm_pc' = "parsed"
  /\ UNCHANGED << value, sap, sap_cores >>
  /\ UNCHANGED << teVars, apiVars, licVars, upVars >>

\* sap.total_cores
SapTotalCores ==
  /\ norm_pc = "cores"
  /\ sap_cores' = sap_total_cores(sap.cores_str, sap.nodes)
  /\ norm_pc' = "counted"
  /\ UNCHANGED << value, parsed, sap >>
  /\ UNCHANGED << teVars, apiVars, licVars, upVars >>

(***************************************************************************)
(* The two calculation endpoints on one request.                           *)
(***************************************************************************)
NoResponse ==
  [ success |-> FALSE, status |-> 0, result |-> EmptyResult,
    total_infrastructure_cores |-> 0, te |-> NoTeResult ]

IdleApi ==
  /\ api_pc = "idle"
  /\ request = <<>>
  /\ api_assets = <<>>
  /\ api_tests = <<>>
  /\ response = NoResponse

InitApi ==
  /\ \/ api_pc = "calculate" /\ request \in CalcRequests
     \/ api_pc = "calculate-te" /\ request \in TeRequests
  /\ api_assets = <<>>
  /\ api_tests = <<>>
  /\ response = NoResponse

\* POST /api/calculate
ApiCalculate ==
  /\ api_pc = "calculate"
  /\ api_assets' = api_calculate(request).assets
  /\ response' = api_calculate(request).response
  /\ api_pc' = "calculated"
  /\ UNCHANGED << request, api_tests >>
  /\ UNCHANGED << teVars, normVars, licVars, upVars >>

\* POST /api/calculate-te
ApiCalculateTe ==
  /\ api_pc = "calculate-te"
  /\ api_tests' = api_calculate_te(request).tests
  /\ response' = api_calculate_te(request).response
  /\ api_pc' = "calculated-te"
  /\ UNCHANGED << request, api_assets >>
  /\ UNCHANGED << teVars, normVars, licVars, upVars >>

(***************************************************************************)
(* A LicenseResult: made by calculate_licenses, its fields assigned and    *)
(* its total_infrastructure_cores property read.                           *)
(***************************************************************************)
IdleLic ==
  /\ inventory = <<>>
  /\ lic = EmptyResult
  /\ lic_pc = "idle"
  /\ lic_sets = 0
  /\ lic_total = 0
  /\ lic_fresh = FALSE

InitLic ==
  /\ inventory \in Inventories
  /\ lic = EmptyResult
  /\ lic_pc = "new"
  /\ lic_sets = 0
  /\ lic_total = 0
  /\ lic_fresh = FALSE

\* calculate_licenses(...)
CalculateLicenses ==
  /\ lic_pc = "new"
  /\ lic' = calculate_licenses(inventory)
  /\ lic_pc' = "calculated"
  /\ lic_fresh' = FALSE
  /\ UNCHANGED << inventory, lic_sets, lic_total >>
  /\ UNCHANGED << teVars, normVars, apiVars, upVars >>

\* result.<field> = v
SetField ==
  /\ lic_pc = "calculated"
  /\ lic_sets < MaxSets
  /\ \E f \in CountFields : \E v \in { 0, lic[f] + 1 } :
       lic' = [lic EXCEPT ![f] = v]
  /\ lic_sets' = lic_sets + 1
  /\ lic_fresh' = FALSE
  /\ UNCHANGED << inventory, lic_pc, lic_total >>
  /\ UNCHANGED << teVars, normVars, apiVars, upVars >>

\* result.total_infrastructure_cores
ReadTotal ==
  /\ lic_pc \in { "new", "calculated" }
  /\ ~lic_fresh
  /\ lic_total' = total_infrastructure_cores(lic)
  /\ lic_fresh' = TRUE
  /\ UNCHANGED << inventory, lic, lic_pc, lic_sets >>
  /\ UNCHANGED << teVars, normVars, apiVars, upVars >>

(***************************************************************************)
(* /api/parse-excel, served to two clients by the threads of the server.  *)
(* The steps of a request are the calls of the handler that touch the     *)
(* upload folder.                                                          *)
(***************************************************************************)
Procs == { 1, 2 }

NoFiles == [x \in {} |-> [book |-> NoUpload.book, owner |-> 0]]

IdleUp ==
  /\ uploads = NoFiles
  /\ upload = [p \in Procs |-> NoUpload]
  /\ up_pc = [p \in Procs |-> "idle"]
  /\ up_parsed = [p \in Procs |-> <<>>]
  /\ up_te_tests = [p \in Procs |-> <<>>]
  /\ up_response = [p \in Procs |-> BadRequest("")]

\* one client alone, or two at the same time
InitUp ==
  /\ uploads = NoFiles
  /\ \/ /\ \E u \in Uploads : upload = (1 :> u @@ 2 :> NoUpload)
        /\ up_pc = (1 :> "received" @@ 2 :> "idle")
     \/ /\ upload \in [Procs -> FewUploads]
        /\ up_pc = [p \in Procs |-> "received"]
  /\ up_parsed = [p \in Procs |-> <<>>]
  /\ up_te_tests = [p \in Procs |-> <<>>]
  /\ up_response = [p \in Procs |-> BadRequest("")]

\* the early returns, secure_filename and file.save(filepath)
Save(p) ==
  /\ up_pc[p] = "received"
  /\ IF rejected(upload[p])
     THEN /\ up_response' =
               [up_response EXCEPT ![p] = api_parse_excel(uploads, upload[p])]
          /\ up_pc' = [up_pc EXCEPT ![p] = "done"]
          /\ UNCHANGED uploads
     ELSE /\ uploads' =
               [x \in DOMAIN uploads \cup { secure_filename(upload[p].filename) }
                  |-> IF x = secure_filename(upload[p].filename)
                      THEN [book |-> upload[p].book, owner |-> p]
                      ELSE uploads[x]]
          /\ up_pc' = [up_pc EXCEPT ![p] = "saved"]
          /\ UNCHANGED up_response
  /\ UNCHANGED << upload, up_parsed, up_te_tests >>
  /\ UNCHANGED << teVars, normVars, apiVars, licVars >>

\* parsed = parse_excel_anexo_aplicaciones(filepath), and the except branch
ParseAnexo(p) ==
  /\ up_pc[p] = "saved"
  /\ LET Got(parsed_) ==
           IF parsed_.exc # ""
           THEN /\ up_response' =
                     [up_response EXCEPT ![p] = BadRequest(parsed_.exc)]
                /\ up_pc' = [up_pc EXCEPT ![p] = "done"]
                /\ UNCHANGED up_parsed
           ELSE /\ up_parsed' = [up_parsed EXCEPT ![p] = parsed_.recs]
                /\ up_pc' = [up_pc EXCEPT ![p] = "parsed"]
                /\ UNCHANGED up_response
     IN  Got(parse_excel_anexo_aplicaciones(
               uploads, secure_filename(upload[p].filename)))
  /\ UNCHANGED << uploads, upload, up_te_tests >>
  /\ UNCHANGED << teVars, normVars, apiVars, licVars >>

\* te_tests = parse_excel_thousandeyes(filepath), and the except branch
ParseTe(p) ==
  /\ up_pc[p] = "parsed"
  /\ LET Got(te_tests) ==
           IF te_tests.exc # ""
           THEN /\ up_response' =
                     [up_response EXCEPT ![p] = BadRequest(te_tests.exc)]
                /\ up_pc' = [up_pc EXCEPT ![p] = "done"]
                /\ UNCHANGED up_te_tests
           ELSE /\ up_te_tests' = [up_te_tests EXCEPT ![p] = te_tests.recs]
                /\ up_pc' = [up_pc EXCEPT ![p] = "read"]
                /\ UNCHANGED up_response
     IN  Got(parse_excel_thousandeyes(
               uploads, secure_filename(upload[p].filename)))
  /\ UNCHANGED << uploads, upload, up_parsed >>
  /\ UNCHANGED << teVars, normVars, apiVars, licVars >>

\* os.remove(filepath), the response built from the records, and the
\* except branch
Remove(p) ==
  /\ up_pc[p] = "read"
  /\ IF secure_filename(upload[p].filename) \notin DOMAIN uploads
     THEN /\ up_response' =
               [up_response EXCEPT ![p] = BadRequest("FileNotFoundError")]
          /\ UNCHANGED uploads
     ELSE /\ uploads' =
               [x \in DOMAIN uploads \ { secure_filename(upload[p].filename) }
                  |-> uploads[x]]
          /\ up_response' =
               [up_response EXCEPT ![p] =
                  [ success |-> TRUE, status |-> 200, error |-> "",
                    data |-> up_parsed[p],
                    thousandeyes_tests |-> up_te_tests[p] ]]
  /\ up_pc' = [up_pc EXCEPT ![p] = "done"]
  /\ UNCHANGED << upload, up_parsed, up_te_tests >>
  /\ UNCHANGED << teVars, normVars, apiVars, licVars >>

(***************************************************************************)
(* Specifications.                                                         *)
(***************************************************************************)
Init == InitTE /\ IdleNorm /\ IdleApi /\ IdleLic /\ IdleUp

Next == GetMilliUnits \/ CalculateThousandEyes

Spec == Init /\ [][Next]_vars

NormInit == IdleTE /\ InitNorm /\ IdleApi /\ IdleLic /\ IdleUp

NormNext == ParseSessionsOrUsers \/ SapTotalCores

SpecNorm == NormInit /\ [][NormNext]_vars

ApiInit == IdleTE /\ IdleNorm /\ InitApi /\ IdleLic /\ IdleUp

ApiNext == ApiCalculate \/ ApiCalculateTe

SpecApi == ApiInit /\ [][ApiNext]_vars

LicInit == IdleTE /\ IdleNorm /\ IdleApi /\ InitLic /\ IdleUp

LicNext == CalculateLicenses \/ SetField \/ ReadTotal

SpecLic == LicInit /\ [][LicNext]_vars

UpInit == IdleTE /\ IdleNorm /\ IdleApi /\ IdleLic /\ InitUp

UpNext ==
  \E p \in Procs : Save(p) \/ ParseAnexo(p) \/ ParseTe(p) \/ Remove(p)

SpecUp == UpInit /\ [][UpNext]_vars

(***************************************************************************)
(* Properties of the ThousandEyes engine.                                  *)
(***************************************************************************)
CloudText == <<"c","l","o","u","d">>

EnterpriseText == <<"e","n","t","e","r","p","r","i","s","e">>

\* the same test with the other agent type
OppositeAgent(t) ==
  [t EXCEPT !.agent_type =
     IF resolve_agent_type(t) = "cloud" THEN EnterpriseText ELSE CloudText]

\* C1: a test whose text resolves to the BGP kind yields the units of the
\* same test with num_agents = 1 and the opposite agent type.
C1_BgpIgnoresAgents ==
  (te_pc = "done" /\ te_key = "bgp") =>
     te_units =
       calculate_units_per_test([OppositeAgent(test) EXCEPT !.num_agents = 1])

\* C2: a text that is an alias key up to letter case and surrounding
\* whitespace resolves to the kind the table gives that key; a text that
\* matches no key resolves to "red"; an agent text that matches no agent
\* alias resolves to "enterprise".
C2_AliasResolution ==
  te_pc # "start" =>
    LET ty == strip(lower(test.test_type))
        ag == strip(lower(test.agent_type))
    IN  /\ \A i \in 1..Len(TEST_TYPE_ALIASES) :
             ty = TEST_TYPE_ALIASES[i][1] => te_key = TEST_TYPE_ALIASES[i][2]
        /\ (\A i \in 1..Len(TEST_TYPE_ALIASES) :
               replace(replace(ty, " ", "_"), "-", "_")
                 # replace(replace(TEST_TYPE_ALIASES[i][1], " ", "_"),
                           "-", "_"))
             => te_key = "red"
        /\ (\A i \in 1..Len(AGENT_TYPE_ALIASES) :
               ag # AGENT_TYPE_ALIASES[i][1]) => te_agent = "enterprise"

\* the enterprise and the cloud rate of the test in the state
EnterpriseRate ==
  IF te_agent = "enterprise" THEN te_milli
  ELSE get_milli_units(OppositeAgent(test))

CloudRate ==
  IF te_agent = "enterprise" THEN get_milli_units(OppositeAgent(test))
  ELSE te_milli

\* C3 as stated: the enterprise rate is half the cloud rate except for BGP
\* and DNS Server, whose two rates are equal.
C3_HalfExceptBgpAndDns ==
  te_pc # "start" =>
    IF te_key \in { "bgp", "dns_server" }
    THEN EnterpriseRate = CloudRate
    ELSE 2 * EnterpriseRate = CloudRate

\* C3 amended: the enterprise rate is half the cloud rate for every kind
\* but BGP, DNS Server included whatever the number of servers; the two
\* BGP rates are equal.
C3_HalfExceptBgp ==
  te_pc # "start" =>
    IF te_key = "bgp"
    THEN EnterpriseRate = CloudRate
    ELSE 2 * EnterpriseRate = CloudRate

\* a DNS Server test on two servers rated for an enterprise agent: 2.5 * 2
C3_Witness ==
  /\ te_pc = "rated"
  /\ te_key = "dns_server"
  /\ te_agent = "enterprise"
  /\ test.dns_servers = Some(2)
  /\ te_milli = 10

\* C4: units = max(1, round(rate * (60 / I) * 24 * 31 * A / 1000)) with I
\* the interval clamped to [1, 60] and A = 1 for the no-agent kind, else
\* max(1, num_agents).
C4_UnitFormula ==
  te_pc = "done" =>
    LET I == Max(1, Min(60, test.interval_minutes))
        A == IF TEST_TYPE_SCOPES[te_key].no_agents THEN 1
             ELSE Max(1, test.num_agents)
    IN  te_units = Max(1, round(te_milli * 60 * 24 * 31 * A, 2 * 1000 * I))

\* C5: for a timeout-scaled kind the rate is the per-second rate times the
\* supplied timeout clamped to [5, 180]; the RTP duration (or 5) is used
\* only when no timeout is supplied.
C5_TimeoutClamp ==
  (te_pc # "start" /\ TEST_TYPE_SCOPES[te_key].uses_timeout) =>
    LET persec == IF te_agent = "enterprise" THEN 1 ELSE 2
        secs   == IF IsNone(test.timeout_seconds)
                  THEN OrInt(test.rtp_duration_seconds, 5)
                  ELSE Val(test.timeout_seconds)
    IN  te_milli = persec * Min(180, Max(5, secs))

(***************************************************************************)
(* Properties of the request layer.                                        *)
(***************************************************************************)
\* C6: every asset record that reaches calculate_licenses has nodes >= 1,
\* cores_per_node >= 1 and total_cores >= 1.
C6_PositiveNodesAndCores ==
  (api_pc = "calculated" /\ response.success) =>
    \A i \in 1..Len(api_assets) :
      api_assets[i].cat # "mobile_apps" =>
        /\ api_assets[i].nodes >= 1
        /\ api_assets[i].cores_per_node >= 1
        /\ total_cores(api_assets[i]) >= 1

\* a text that int() does not accept
NonNumeric(raw) ==
  raw.tag = "str" /\ raw.s # <<>> /\ int(raw).tag = "ValueError"

\* C7: a request whose nodes, cores_per_node, interval, agent-count or
\* timeout field holds non-numeric text is answered with the calculation
\* result, the field taking its default (nodes 1, cores 4).
C7_NonNumericDefaults ==
  /\ api_pc = "calculated" =>
       \A i \in 1..Len(request) :
         /\ (request[i].cat # "mobile_apps" /\ NonNumeric(request[i].nodes))
              => /\ response.success
                 /\ response.status = 200
                 /\ api_assets[i].nodes = 1
         /\ (request[i].cat \notin { "mobile_apps", "sap_apps" }
               /\ NonNumeric(request[i].cores_per_node))
              => /\ response.success
                 /\ response.status = 200
                 /\ api_assets[i].cores_per_node = 4
  /\ api_pc = "calculated-te" =>
       \A i \in 1..Len(request) :
         ( \/ NonNumeric(request[i].interval_minutes)
           \/ NonNumeric(request[i].num_agents)
           \/ NonNumeric(request[i].timeout_seconds) )
           => response.success /\ response.status = 200

(***************************************************************************)
(* Properties of the normalisation functions.                              *)
(***************************************************************************)
\* C8: parse_sessions_or_users returns none for None, NaN, zero, a number
\* <= 0 and a text without a number or whose number is zero; a number > 0
\* gives its truncation; a returned value is a positive integer; and
\* "2000 usuarios" gives 2000, "1.5k" gives 1500, "" gives none.
C8_NoneOrPositive ==
  (norm_pc = "parsed" /\ value.tag # "inf") =>
    /\ (value.tag # "float" /\ parsed.tag = "int") => parsed.n > 0
    /\ value.tag \in { "None", "nan", "ninf" } => parsed = RetNone
    /\ value.tag = "int" =>
         parsed = IF value.n > 0 THEN RetInt(value.n) ELSE RetNone
    /\ value.tag = "float" =>
         parsed = IF value.n > 0 THEN RetInt(value.n \div 10) ELSE RetNone
    /\ (value.tag = "str" /\ \A i \in 1..Len(value.s) : value.s[i] \notin Digits)
         => parsed = RetNone
    /\ value = PyStr(<<"2","0","0","0"," ","u","s","u","a","r","i","o","s">>)
         => parsed = RetInt(2000)
    /\ value = PyStr(<<"1",".","5","k">>) => parsed = RetInt(1500)

\* the number the claim reads in a text that has a digit: the first run of
\* digits with at most one separator and more digits, times 1000 or
\* 1000000 when k or m (any case) is the very next character
ImmediateSuffixValue(s) ==
  LET ds   == { i \in 1..Len(s) : s[i] \in Digits }
      i    == CHOOSE a \in ds : \A b \in ds : a <= b
      e    == RunEnd(s, i)
      e1   == IF e + 2 <= Len(s) /\ s[e + 1] \in { ".", "," }
                   /\ s[e + 2] \in Digits
              THEN RunEnd(s, e + 2) ELSE e
      next == IF e1 + 1 <= Len(s) THEN LowerChar(s[e1 + 1]) ELSE ""
      mult == IF next = "k" THEN 1000
              ELSE IF next = "m" THEN 1000000 ELSE 1
  IN  IntOfFloatTimes(replace(SubSeq(s, i, e1), ",", "."), mult)

\* C9: on a text, the value is that of the first number, multiplied only
\* when k or m follows it immediately; with whitespace in between the
\* number is returned unmultiplied.  (Stated on the texts whose first
\* number has at most one separator.)
C9_SuffixOnlyWhenAdjacent ==
  ( /\ norm_pc = "parsed"
    /\ value.tag = "str"
    /\ \E i \in 1..Len(value.s) : value.s[i] \in Digits
    /\ Count(Val(FirstNumber(value.s)), ".")
         + Count(Val(FirstNumber(value.s)), ",") <= 1 )
    => parsed = RetInt(ImmediateSuffixValue(value.s))

\* C10: both functions are total: parse_sessions_or_users returns an
\* integer or none, the core-count extraction returns an integer, and
\* neither raises.
C10_Total ==
  /\ norm_pc = "parsed" => parsed.tag \in { "None", "int" }
  /\ norm_pc = "counted" => sap_cores \in Int

(***************************************************************************)
(* Properties of the licence engine.                                       *)
(***************************************************************************)
PartCores(p) == IF IsNone(p.cores) THEN 0 ELSE Val(p.cores)

AscsText ==
  <<"A","S","C","S"," ","2"," ","V","C","P","U",","," ","P","r","i","m",
    "a","r","i","o"," ","A","P","P"," ","S","e","r","v","e","r"," ",
    "1","6"," ","V","C","P","U">>

\* C11: SAPApplication.total_cores is nodes times the sum of every integer
\* followed, after optional whitespace, by VCPU/CPU/core in any case, over
\* all occurrences, and nodes times 4 exactly when there is none;
\* "ASCS 2 VCPU, Primario APP Server 16 VCPU" with 1 node gives 18 and
\* "no info" with 2 nodes gives 8.
C11_SumOfAllOccurrences ==
  norm_pc = "counted" =>
    /\ \A a, b \in CoreParts :
         sap.cores_str = a.text \o PartSep \o b.text =>
           sap_cores = IF IsNone(a.cores) /\ IsNone(b.cores)
                       THEN sap.nodes * 4
                       ELSE sap.nodes * (PartCores(a) + PartCores(b))
    /\ sap.cores_str = AscsText /\ sap.nodes = 1 => sap_cores = 18
    /\ sap.cores_str = <<"n","o"," ","i","n","f","o">> /\ sap.nodes = 2
         => sap_cores = 8

C11_Witness ==
  /\ norm_pc = "counted"
  /\ sap.cores_str = AscsText
  /\ sap.nodes = 1
  /\ sap_cores = 18

\* C12: total_infrastructure_cores, whenever it is read and however the
\* fields were set or changed before, is the sum of the current values of
\* apm_cores, database_cores, sap_cores, microservices_containers,
\* server_visibility_only_cores and secure_app_cores; it is never a stale
\* stored value.
C12_TotalIsSumOfCurrentFields ==
  lic_fresh =>
    lic_total = lic.apm_cores + lic.database_cores + lic.sap_cores
                  + lic.microservices_containers
                  + lic.server_visibility_only_cores + lic.secure_app_cores

C12_Witness ==
  /\ lic_fresh
  /\ lic_sets > 0
  /\ lic # calculate_licenses(inventory)
  /\ lic.secure_app_cores > 0
  /\ lic_total > 0

\* sum of a sequence of integers
Total(ws) ==
  LET f[i \in 0..Len(ws)] == IF i = 0 THEN 0 ELSE f[i - 1] + ws[i]
  IN  f[Len(ws)]

\* sum of total_cores over the records of one category
CoresIn(inv, cat) ==
  Total([i \in 1..Len(inv) |->
           IF inv[i].cat = cat THEN total_cores(inv[i]) ELSE 0])

\* the inventory with record i removed
Without(inv, i) == SubSeq(inv, 1, i - 1) \o SubSeq(inv, i + 1, Len(inv))

\* the core fields a category feeds
OwnFields(cat) ==
  CASE cat = "applications" -> { "apm_cores", "secure_app_cores" }
    [] cat = "databases" -> { "database_cores" }
    [] cat = "sap_apps" -> { "sap_cores" }
    [] cat = "microservices" -> { "microservices_containers" }
    [] cat = "server_visibility_only" -> { "server_visibility_only_cores" }
    [] OTHER -> {}

Returned == lic_pc = "calculated" /\ lic_sets = 0

\* C13: calculate_licenses sets each per-category core field to the sum of
\* total_cores over exactly its own category, and secure_app_cores to the
\* sum over the applications with has_secure_app, in addition to apm_cores;
\* removing (or adding) a record of one category leaves every other
\* category's field unchanged.
C13_PerCategorySums ==
  Returned =>
    /\ lic.apm_cores = CoresIn(inventory, "applications")
    /\ lic.database_cores = CoresIn(inventory, "databases")
    /\ lic.sap_cores = CoresIn(inventory, "sap_apps")
    /\ lic.microservices_containers = CoresIn(inventory, "microservices")
    /\ lic.server_visibility_only_cores
         = CoresIn(inventory, "server_visibility_only")
    /\ lic.secure_app_cores
         = Total([i \in 1..Len(inventory) |->
                    IF inventory[i].cat = "applications"
                         /\ inventory[i].has_secure_app
                    THEN total_cores(inventory[i]) ELSE 0])
    /\ \A i \in 1..Len(inventory) :
         \A f \in (CountFields \ { "server_visibility_instances" })
                    \ OwnFields(inventory[i].cat) :
           calculate_licenses(Without(inventory, i))[f] = lic[f]

C13_Witness ==
  /\ Returned
  /\ Len(inventory) = 2
  /\ inventory[1].cat = "applications" /\ inventory[1].has_secure_app
  /\ inventory[2].cat = "applications" /\ ~inventory[2].has_secure_app
  /\ lic.secure_app_cores > 0
  /\ lic.apm_cores > lic.secure_app_cores

\* C14: server_visibility_instances is the sum of nodes over applications,
\* databases, SAP apps and microservices and does not depend on the
\* server_visibility_only list: a server-visibility-only record changes
\* server_visibility_only_cores and leaves server_visibility_instances as it
\* is without the record.
C14_InstancesExcludeVisibilityOnly ==
  Returned =>
    /\ lic.server_visibility_instances
         = Total([i \in 1..Len(inventory) |->
                    IF inventory[i].cat \in { "applications", "databases",
                                              "sap_apps", "microservices" }
                    THEN inventory[i].nodes ELSE 0])
    /\ \A i \in 1..Len(inventory) :
         inventory[i].cat = "server_visibility_only" =>
           LET r == calculate_licenses(Without(inventory, i))
           IN  /\ r.server_visibility_instances
                    = lic.server_visibility_instances
               /\ r.server_visibility_only_cores
                    # lic.server_visibility_only_cores

C14_Witness ==
  /\ Returned
  /\ Len(inventory) = 2
  /\ inventory[1].cat = "databases" /\ inventory[1].nodes = MaxNodes
  /\ inventory[2].cat = "server_visibility_only"
  /\ lic.server_visibility_instances = MaxNodes
  /\ lic.server_visibility_only_cores > 0

\* C15: rum_browser_pageviews_monthly is 20 times the sum of sessions over
\* the applications and microservices that are web-flagged and have a known
\* session count, a record with is_web_app false contributing zero;
\* pageviews_annual is 12 times monthly, tokens_annual equals
\* pageviews_annual, and rum_browser_units is the fraction tokens_annual
\* over 10,000,000.
C15_RumBrowser ==
  Returned =>
    /\ lic.rum_browser_pageviews_monthly
         = 20 * Total([i \in 1..Len(inventory) |->
                         IF /\ inventory[i].cat
                                 \in { "applications", "microservices" }
                            /\ inventory[i].is_web_app
                            /\ ~IsNone(inventory[i].sessions_users_per_month)
                         THEN Val(inventory[i].sessions_users_per_month)
                         ELSE 0])
    /\ lic.rum_browser_pageviews_annual
         = 12 * lic.rum_browser_pageviews_monthly
    /\ lic.rum_browser_tokens_annual = lic.rum_browser_pageviews_annual
    /\ lic.rum_browser_units = << lic.rum_browser_tokens_annual, 10000000 >>

C15_Witness ==
  /\ Returned
  /\ Len(inventory) = 2
  /\ inventory[1].cat = "applications" /\ ~inventory[1].is_web_app
  /\ inventory[1].sessions_users_per_month = Some(MaxCount)
  /\ inventory[2].cat = "microservices" /\ inventory[2].is_web_app
  /\ inventory[2].sessions_users_per_month = Some(5)
  /\ lic.rum_browser_pageviews_monthly = 100

\* C19: every value get_test_types_for_ui offers resolves back, through
\* resolve_test_type, to the catalog key it was generated from, for all 13
\* kinds, so the test is costed with that kind's cost model.
C19_UiValuesResolveBack ==
  /\ Cardinality(get_test_types_for_ui) = 13
  /\ te_pc \in { "rated", "done" } =>
       \A item \in get_test_types_for_ui :
         test.test_type = item.value => te_key = item.key

\* one request of /api/parse-excel, served with no other in flight, has
\* returned after saving a workbook the reader opens
ServedAlone ==
  /\ up_pc = (1 :> "done" @@ 2 :> "idle")
  /\ ~rejected(upload[1])
  /\ upload[1].book.readable

\* C16: with any interleaving of two /api/parse-excel uploads, the same file
\* name included, each request completes with the response it would produce
\* if handled alone.
C16_NoInterference ==
  \A p \in Procs :
    up_pc[p] = "done" =>
      up_response[p] = api_parse_excel(NoFiles, upload[p])

\* C17: for every sheet grid, rows with fewer columns than the column
\* offsets read and cells that are empty or unparsable included, the two
\* parsers raise nothing: a workbook that holds both sheets is answered
\* with the record lists.
C17_IngestionNeverFails ==
  ( /\ ServedAlone
    /\ { "Anexo Aplicaciones", "ThousandeyesV1" }
          \subseteq upload[1].book.sheet_names )
    => up_response[1].success

\* C18 as stated: for each of the two sheets, "Anexo Aplicaciones" and
\* "ThousandeyesV1", a workbook that lacks it ends in an error outcome that
\* reaches the caller.
C18_MissingSheetIsAnError ==
  ServedAlone =>
    \A sheet \in { "Anexo Aplicaciones", "ThousandeyesV1" } :
      sheet \notin upload[1].book.sheet_names =>
        ~up_response[1].success /\ up_response[1].status = 400

\* C18 as the code has it: a workbook that lacks "Anexo Aplicaciones" ends
\* in the error response with the ValueError raised; a workbook that lacks
\* only "ThousandeyesV1" is not an error on that account: the request fails
\* exactly when the rows of "Anexo Aplicaciones" raise, and succeeds with an
\* empty list of tests otherwise.
C18_OnlyAnexoIsRequired ==
  ServedAlone =>
    /\ "Anexo Aplicaciones" \notin upload[1].book.sheet_names =>
         up_response[1] = BadRequest("ValueError")
    /\ ( /\ "Anexo Aplicaciones" \in upload[1].book.sheet_names
         /\ "ThousandeyesV1" \notin upload[1].book.sheet_names ) =>
         /\ up_response[1].error
              = read_rows(TRUE, upload[1].book.anexo, 0).exc
         /\ up_response[1].thousandeyes_tests = <<>>

C18_Witness ==
  /\ ServedAlone
  /\ upload[1].book.sheet_names = { "Anexo Aplicaciones" }
  /\ up_response[1].success
  /\ up_response[1].status = 200
  /\ Len(up_response[1].data) = 1
  /\ up_response[1].thousandeyes_tests = <<>>

\* C20: after a request of /api/parse-excel completes, on the success path
\* and on every error path, the file it saved into the upload folder is no
\* longer there.
C20_UploadRemoved ==
  ( /\ up_pc = (1 :> "done" @@ 2 :> "idle")
    /\ ~rejected(upload[1]) )
    => uploads = NoFiles

\* the tests that differ from t in the one field f, by a larger value
Larger(t, f) ==
  CASE f = "num_agents" ->
         { [t EXCEPT !.num_agents = n] :
             n \in { m \in 0..MaxAgents : m > t.num_agents } }
    [] f = "interval_minutes" ->
         { [t EXCEPT !.interval_minutes = n] :
             n \in { m \in Intervals : m > t.interval_minutes } }
    [] f = "timeout_seconds" ->
         { [t EXCEPT !.timeout_seconds = x] :
             x \in { y \in Timeouts :
                       /\ ~IsNone(y) /\ ~IsNone(t.timeout_seconds)
                       /\ Val(y) > Val(t.timeout_seconds) } }

\* the tests that differ from t in the agent type only, and are cloud
\* where t is enterprise
OnCloud(t) ==
  { u \in { [t EXCEPT !.agent_type = a] : a \in AgentTexts } :
      /\ resolve_agent_type(t) = "enterprise"
      /\ resolve_agent_type(u) = "cloud" }

\* C22: calculate_units_per_test is monotone: for tests equal in every other
\* field, more agents never give fewer units, a larger interval never gives
\* more units, a larger timeout never gives fewer units, and cloud never
\* gives fewer units than enterprise; total_units of calculate_thousandeyes
\* is the sum of the units of the tests and at least their number.
C22_Monotone ==
  te_pc = "done" =>
    /\ \A u \in Larger(test, "num_agents") :
         calculate_units_per_test(u) >= te_units
    /\ \A u \in Larger(test, "interval_minutes") :
         calculate_units_per_test(u) <= te_units
    /\ \A u \in Larger(test, "timeout_seconds") :
         calculate_units_per_test(u) >= te_units
    /\ \A u \in OnCloud(test) :
         calculate_units_per_test(u) >= te_units
    /\ \A u \in Larger(test, "num_agents") :
         /\ calculate_thousandeyes(<<test, u>>).total_units
              = te_units + calculate_units_per_test(u)
         /\ calculate_thousandeyes(<<test, u>>).total_units >= 2
    /\ calculate_thousandeyes(<<test>>).total_units = te_units
    /\ te_units >= 1

\* the row indices of a sheet "Anexo Aplicaciones" that yield a record
Yielding(df) ==
  { idx \in 0..(Len(df) - 1) : sheet_row(TRUE, idx, df[idx + 1]).recs # <<>> }

\* the record a successful ingestion holds for the row at idx
RecordOf(data, df, idx) ==
  data[1 + Cardinality({ j \in Yielding(df) : j < idx })]

\* a cell that holds a positive integer, as a number or as digits
Whole(c) ==
  \/ c.tag = "int" /\ c.n > 0
  \/ /\ c.tag = "str" /\ c.s # <<>>
     /\ \A i \in 1..Len(c.s) : c.s[i] \in Digits
     /\ ParseNat(c.s) > 0

WholeOf(c) == IF c.tag = "int" THEN c.n ELSE ParseNat(c.s)

\* C21: in the ingestion of application rows (3-5) and database rows (9-11)
\* the nodes and cores fields default independently: a row whose nodes cell
\* holds a positive integer keeps that node count whatever its cores cell
\* holds, and a row whose cores cell holds one keeps that core count
\* whatever its nodes cell holds.
C21_IndependentDefaults ==
  (ServedAlone /\ up_response[1].success) =>
    \A idx \in Yielding(upload[1].book.anexo) \cap ((3..5) \cup (9..11)) :
      LET row   == upload[1].book.anexo[idx + 1]
          rec   == RecordOf(up_response[1].data, upload[1].book.anexo, idx)
          nodes == row[IF idx <= 5 THEN 6 ELSE 5]
          cores == row[IF idx <= 5 THEN 7 ELSE 4]
      IN  /\ Whole(nodes) => rec.nodes = WholeOf(nodes)
          /\ Whole(cores) => rec.cores_per_node = WholeOf(cores)

=============================================================================
